---- MODULE Spec2Model ----
(***************************************************************************)
(* A model of rkt's cgroup package as vendored by rktlet                   *)
(* (vendor/github.com/coreos/rkt/common/cgroup/cgroup.go), of journal2cri's *)
(* ProcessEntry and of the exec shim of rktlet's runtime.                  *)
(*                                                                         *)
(* Paths are sequences of tokens: the path components, separated by the    *)
(* token "/".  A controller directory name is the token sequence of its    *)
(* controllers separated by the token ",".  All paths are written as seen  *)
(* from inside the container's mount namespace, i.e. relative to `root`.   *)
(***************************************************************************)
EXTENDS Integers, Sequences, FiniteSets, TLC

VARIABLES
    enabledCgroups, \* the Controller Hierarchy Map: hierarchy id -> controllers
    missing,        \* knob basenames this kernel does not provide
    mounts,         \* kernel mount table of the container's namespace
    dirs,           \* directories created so far
    symlinks,       \* symlinks: entries [ln |-> path, tgt |-> target name]
    fn,             \* function being executed (or the last one executed)
    pc,             \* position inside the function, "done" between calls
    args,           \* arguments of the current call
    controllers,    \* local: GetV1ControllerDirs(enabledCgroups) of this call
    ci,             \* local: index into controllers
    si,             \* local: index into serviceNames
    fi,             \* local: index into getV1ControllerRWFiles(c)
    links,          \* local: symlink names still to be created
    log,            \* kernel operations issued by the current call, in order
    ret,            \* result of the last finished call
    ncalls,         \* number of calls started
    cpuset,         \* contents of the cpuset knobs: knob -> [child, parent]
    statfs,         \* statfs of /sys/fs/cgroup: [err, type], the file system type
    v2Controllers,  \* content of /sys/fs/cgroup/cgroup.controllers
    isoIn,          \* arguments of the last MaybeAddIsolator call
    isoOut,         \* what that call returned
    hierarchies,    \* the mounted v1 hierarchies: sequence of [id, controllers, dir]
    membership,     \* the calling process's cgroup in each hierarchy (a path)
    lastJoin,       \* the last JoinV1Subcgroup call and its result
    call,           \* the last call of a function that only reads, with its result
    exec,           \* Exec: [pc, ret]; ExecSync around it: [sync, depth, response]
    cmd,            \* the exec.Cmd of Exec and its process
    goroutines,     \* the goroutines of Exec: name -> [pc, err, sent, pipe, copied, depth]
    errCh,          \* the buffered error channel of Exec: the values in it
    done            \* whether the channel done is closed

mountVars == <<enabledCgroups, missing, mounts, dirs, symlinks, fn, pc, args,
               controllers, ci, si, fi, links, log, ret, ncalls, cpuset>>

isoVars == <<statfs, v2Controllers, isoIn, isoOut>>

procVars == <<hierarchies, membership, lastJoin, call>>

execVars == <<exec, goroutines, errCh, done, cmd>>

\* the state the mount operations neither read nor write
pureVars == <<isoVars, procVars, execVars>>

vars == <<mountVars, isoVars, procVars, execVars>>

-----------------------------------------------------------------------------
(* Bounds of the model *)

MaxCalls == 3

\* calls of JoinV1Subcgroup by the process looked at
MaxJoins == 2

-----------------------------------------------------------------------------
(* Strings and paths *)

Sep == "/"
Comma == ","

\* filepath.Join(a, b)
JoinPath(a, b) == IF a = <<>> THEN b ELSE IF b = <<>> THEN a ELSE a \o <<Sep>> \o b

IsPrefix(p, q) == Len(p) <= Len(q) /\ SubSeq(q, 1, Len(p)) = p

\* q lies strictly below directory p
IsUnder(p, q) == IsPrefix(p \o <<Sep>>, q)

\* strings.Join(cs, ",")
RECURSIVE JoinComma(_)
JoinComma(cs) ==
    IF Len(cs) = 0 THEN <<>>
    ELSE IF Len(cs) = 1 THEN <<cs[1]>>
    ELSE <<cs[1], Comma>> \o JoinComma(Tail(cs))

\* strings.Split(name, ",")
SplitComma(name) == SelectSeq(name, LAMBDA t : t # Comma)

\* filepath.Join(root, "/sys"), filepath.Join(root, "/sys/fs/cgroup")
SysPath == <<"sys">>
CgroupTmpfs == <<"sys", Sep, "fs", Sep, "cgroup">>
SystemdControllerPath == JoinPath(CgroupTmpfs, <<"systemd">>)

-----------------------------------------------------------------------------
(* Static tables of the package *)

v1CgroupControllerRWFiles ==
    [c \in {"memory", "cpu", "devices"} |->
        CASE c = "memory" -> <<"memory.limit_in_bytes">>
          [] c = "cpu" -> <<"cpu.cfs_quota_us">>
          [] c = "devices" -> <<"devices.allow", "devices.deny">>]

\* the Controller Hierarchy Maps the model is run with
HierarchyMaps ==
    { (0 :> <<"cpu">>) @@ (1 :> <<"memory">>),
      (0 :> <<"cpu", "cpuacct">>) @@ (1 :> <<"memory">>),
      (0 :> <<"cpuset">>) @@ (1 :> <<"cpuacct", "cpu">>),
      (0 :> <<"cpu", "memory">>),
      (0 :> <<"cpu", "cpuset">>) }

Subcgroups == {<<"machine">>}
Services == {"a.service", "b.service"}
ServiceLists == {<<>>, <<"a.service">>, <<"a.service", "b.service">>}
KnobNames == {"memory.limit_in_bytes", "cpu.cfs_quota_us", "devices.allow", "devices.deny"}

Perms(S) == {s \in [1..Cardinality(S) -> S] : \A i, j \in 1..Cardinality(S) : i # j => s[i] # s[j]}

\* GetV1ControllerDirs: the range over the Go map visits the hierarchies in
\* an unspecified order, so every ordering of the directory names is a result
GetV1ControllerDirs(cgroups) ==
    {[i \in 1..Cardinality(DOMAIN cgroups) |-> JoinComma(cgroups[order[i]])] :
        order \in Perms(DOMAIN cgroups)}

\* variant: the members of every hierarchy are linked, also of one with a
\* single controller
getV1ControllerSymlinksAll(cgroups) ==
    LET names == UNION {{cgroups[h][i] : i \in 1..Len(cgroups[h])} : h \in DOMAIN cgroups}
    IN [ln \in names |->
          JoinComma(cgroups[CHOOSE h \in DOMAIN cgroups :
                              \E i \in 1..Len(cgroups[h]) : cgroups[h][i] = ln])]

getV1ControllerSymlinks(cgroups) ==
    LET joint == {h \in DOMAIN cgroups : Len(cgroups[h]) > 1}
        names == UNION {{cgroups[h][i] : i \in 1..Len(cgroups[h])} : h \in joint}
    IN [ln \in names |->
          JoinComma(cgroups[CHOOSE h \in joint : \E i \in 1..Len(cgroups[h]) : cgroups[h][i] = ln])]

getV1ControllerRWFiles(controller) ==
    LET parts == SplitComma(controller)
        hits == {i \in 1..Len(parts) : parts[i] \in DOMAIN v1CgroupControllerRWFiles}
    IN IF hits = {} THEN <<>>
       ELSE LET first == CHOOSE i \in hits : \A j \in hits : i <= j
            IN v1CgroupControllerRWFiles[parts[first]] \o <<"cgroup.procs">>

-----------------------------------------------------------------------------
(* The kernel: mount table and file system *)

\* the mount table is a set of entries [mp |-> mount point, flag |-> "rw" | "ro"],
\* one per mount point (the mount on top of the stack at that point)
MountPoints == {m.mp : m \in mounts}
FlagAt(mp) == (CHOOSE m \in mounts : m.mp = mp).flag

\* the mount a path belongs to: the longest mount point that is the path or
\* an ancestor of it; a path on no mount of the table is on the host's
\* writable root file system
Covering(p) == {mp \in MountPoints : mp = p \/ IsUnder(mp, p)}
MountOf(p) == CHOOSE mp \in Covering(p) : \A o \in Covering(p) : Len(o) <= Len(mp)
FlagOf(p) == IF Covering(p) = {} THEN "rw" ELSE FlagAt(MountOf(p))
Writable(p) == FlagOf(p) = "rw"

\* mount(2) of a new file system on p: a fresh read-write mount that hides
\* the old mount at p and whatever was mounted below p
MountNew(p) ==
    {m \in mounts : m.mp # p /\ ~IsUnder(p, m.mp)} \cup {[mp |-> p, flag |-> "rw"]}

\* mount(2) with MS_BIND of p over itself: a new mount at p that inherits
\* the flags of the mount p was on
MountBind(p) ==
    {m \in mounts : m.mp # p} \cup {[mp |-> p, flag |-> FlagOf(p)]}

\* variant: the remount does not change the flags
RemountKeepsFlags(p, flag) == mounts

\* variant: the remount reaches the mounts below p as well
RemountRecursive(p, flag) ==
    {m \in mounts : m.mp # p /\ ~IsUnder(p, m.mp)}
        \cup {[mp |-> m.mp, flag |-> flag] : m \in {n \in mounts : n.mp = p \/ IsUnder(p, n.mp)}}

\* mount(2) with MS_BIND|MS_REMOUNT and the given flag: changes the flags of
\* the mount at p alone (mounts below p keep theirs)
Remount(p, flag) ==
    {m \in mounts : m.mp # p} \cup {[mp |-> p, flag |-> flag]}

\* os.Stat of a knob file: the file is there iff a cgroup hierarchy is
\* mounted at the controller directory and the kernel provides the knob
KnobExists(cPath, f) == cPath \in MountPoints /\ f \notin missing

-----------------------------------------------------------------------------
(* Bookkeeping *)

Op(op, path, res) == [op |-> op, path |-> path, res |-> res]
\* a read-only remount, with the flag of the path before it
RemountOp(path, res) == [op |-> "remount ro", path |-> path, res |-> res, before |-> FlagOf(path)]
MountOp(op, path, data, res) == [op |-> op, path |-> path, res |-> res, data |-> data]

NoArgs == [subcgroup |-> <<>>, serviceNames |-> <<>>]

\* Between calls.  The caller of the package aborts the creation of the
\* container and discards its root when CreateV1Cgroups or
\* RemountV1CgroupsRO fails, so no further call is made on this container
\* after such a failure; a failed RemountCgroupKnobsRW (adding one app)
\* leaves the running container in use.
Idle == pc = "done" /\ ~(ret = "err" /\ fn # "RemountCgroupKnobsRW")

\* the function returns r; fn keeps naming the function that returned
Returns(r) ==
    /\ pc' = "done"
    /\ ret' = r
    /\ UNCHANGED fn

Locals == <<controllers, ci, si, fi, links>>
Kernel == <<mounts, dirs, symlinks>>
Frame == <<enabledCgroups, missing, args, ncalls, cpuset, pureVars>>

-----------------------------------------------------------------------------
(* CreateV1Cgroups(root, enabledCgroups, mountContext) *)

CallCreateV1Cgroups ==
    /\ Idle /\ ncalls < MaxCalls
    /\ fn' = "CreateV1Cgroups"
    /\ pc' = "mkdir_sys"
    /\ args' = NoArgs
    /\ \E cs \in GetV1ControllerDirs(enabledCgroups) : controllers' = cs
    /\ ci' = 1 /\ si' = 1 /\ fi' = 1
    /\ links' = DOMAIN getV1ControllerSymlinks(enabledCgroups)
    /\ log' = <<>>
    /\ ret' = "none"
    /\ ncalls' = ncalls + 1
    /\ UNCHANGED <<enabledCgroups, missing, mounts, dirs, symlinks, cpuset, pureVars>>

\* os.MkdirAll(path): on success the directory exists, on failure the
\* function returns the error
MkdirStep(path, next) ==
    \/ /\ dirs' = dirs \cup {path}
       /\ log' = Append(log, Op("mkdir", path, "ok"))
       /\ pc' = next
       /\ UNCHANGED <<fn, ret>>
    \/ /\ log' = Append(log, Op("mkdir", path, "err"))
       /\ Returns("err")
       /\ UNCHANGED dirs

CreateMkdirSys ==
    /\ fn = "CreateV1Cgroups" /\ pc = "mkdir_sys"
    /\ MkdirStep(SysPath, "mount_sysfs")
    /\ UNCHANGED <<Frame, Locals, mounts, symlinks>>

\* variant: an EBUSY of the sysfs mount is returned like any other error
CreateMountSysfsStrict ==
    /\ fn = "CreateV1Cgroups" /\ pc = "mount_sysfs"
    /\ \/ /\ SysPath \notin MountPoints
          /\ mounts' = MountNew(SysPath)
          /\ log' = Append(log, Op("mount sysfs", SysPath, "ok"))
          /\ pc' = "mkdir_tmpfs"
          /\ UNCHANGED <<fn, ret>>
       \/ /\ \E e \in {"EBUSY", "err"} : log' = Append(log, Op("mount sysfs", SysPath, e))
          /\ Returns("err")
          /\ UNCHANGED mounts
    /\ UNCHANGED <<Frame, Locals, dirs, symlinks>>

\* mount(2) of sysfs: EBUSY when a sysfs is mounted on sys already, which is
\* ignored; any other error is returned
CreateMountSysfs ==
    /\ fn = "CreateV1Cgroups" /\ pc = "mount_sysfs"
    /\ \/ /\ SysPath \notin MountPoints
          /\ mounts' = MountNew(SysPath)
          /\ log' = Append(log, Op("mount sysfs", SysPath, "ok"))
          /\ pc' = "mkdir_tmpfs"
          /\ UNCHANGED <<fn, ret>>
       \/ /\ SysPath \in MountPoints
          /\ log' = Append(log, Op("mount sysfs", SysPath, "EBUSY"))
          /\ pc' = "mkdir_tmpfs"
          /\ UNCHANGED <<fn, ret, mounts>>
       \/ /\ log' = Append(log, Op("mount sysfs", SysPath, "err"))
          /\ Returns("err")
          /\ UNCHANGED mounts
    /\ UNCHANGED <<Frame, Locals, dirs, symlinks>>

\* variant: the tmpfs mount is left out, the controllers follow the mkdir
CreateMkdirTmpfsThenControllers ==
    /\ fn = "CreateV1Cgroups" /\ pc = "mkdir_tmpfs"
    /\ MkdirStep(CgroupTmpfs, "ctrl_mkdir")
    /\ UNCHANGED <<Frame, Locals, mounts, symlinks>>

CreateMkdirTmpfs ==
    /\ fn = "CreateV1Cgroups" /\ pc = "mkdir_tmpfs"
    /\ MkdirStep(CgroupTmpfs, "mount_tmpfs")
    /\ UNCHANGED <<Frame, Locals, mounts, symlinks>>

\* variant: the error of the mount is dropped and the build goes on
MountStepIgnoresError(op, path, data, next) ==
    /\ \/ /\ mounts' = MountNew(path)
          /\ log' = Append(log, MountOp(op, path, data, "ok"))
       \/ /\ log' = Append(log, MountOp(op, path, data, "err"))
          /\ UNCHANGED mounts
    /\ pc' = next
    /\ UNCHANGED <<fn, ret>>

\* a mount(2) with the data string (the options of the file system) given,
\* whose every failure is fatal
MountStep(op, path, data, next) ==
    \/ /\ mounts' = MountNew(path)
       /\ log' = Append(log, MountOp(op, path, data, "ok"))
       /\ pc' = next
       /\ UNCHANGED <<fn, ret>>
    \/ /\ \E e \in {"EBUSY", "err"} : log' = Append(log, MountOp(op, path, data, e))
       /\ Returns("err")
       /\ UNCHANGED mounts

\* the new tmpfs is empty: the directories and symlinks that were below the
\* mount point are out of sight
CreateMountTmpfs ==
    /\ fn = "CreateV1Cgroups" /\ pc = "mount_tmpfs"
    /\ MountStep("mount tmpfs", CgroupTmpfs, <<"mode=755">>,
                 IF Len(controllers) > 0 THEN "ctrl_mkdir" ELSE "symlink")
    /\ IF log'[Len(log')].res = "ok"
       THEN /\ dirs' = {d \in dirs : ~IsUnder(CgroupTmpfs, d)}
            /\ symlinks' = {l \in symlinks : ~IsUnder(CgroupTmpfs, l.ln)}
       ELSE UNCHANGED <<dirs, symlinks>>
    /\ UNCHANGED <<Frame, Locals>>

CreateCtrlMkdir ==
    /\ fn = "CreateV1Cgroups" /\ pc = "ctrl_mkdir"
    /\ MkdirStep(JoinPath(CgroupTmpfs, controllers[ci]), "ctrl_mount")
    /\ UNCHANGED <<Frame, Locals, mounts, symlinks>>

CreateCtrlMount ==
    /\ fn = "CreateV1Cgroups" /\ pc = "ctrl_mount"
    /\ MountStep("mount cgroup", JoinPath(CgroupTmpfs, controllers[ci]), controllers[ci],
                 IF ci < Len(controllers) THEN "ctrl_mkdir" ELSE "symlink")
    /\ ci' = ci + 1
    /\ UNCHANGED <<Frame, controllers, si, fi, links, dirs, symlinks>>

\* one iteration of the range over the symlink map (any remaining entry)
CreateSymlink ==
    /\ fn = "CreateV1Cgroups" /\ pc = "symlink"
    /\ links # {}
    /\ \E ln \in links :
         LET lnPath == JoinPath(CgroupTmpfs, <<ln>>)
             tgt == getV1ControllerSymlinks(enabledCgroups)[ln]
         IN \/ /\ symlinks' = {l \in symlinks : l.ln # lnPath} \cup {[ln |-> lnPath, tgt |-> tgt]}
               /\ links' = links \ {ln}
               /\ log' = Append(log, Op("symlink", lnPath, "ok"))
               /\ UNCHANGED <<fn, pc, ret>>
            \/ /\ log' = Append(log, Op("symlink", lnPath, "err"))
               /\ Returns("err")
               /\ UNCHANGED <<symlinks, links>>
    /\ UNCHANGED <<Frame, controllers, ci, si, fi, mounts, dirs>>

CreateMkdirSystemd ==
    /\ fn = "CreateV1Cgroups" /\ pc = "symlink"
    /\ links = {}
    /\ MkdirStep(SystemdControllerPath, "remount_ro")
    /\ UNCHANGED <<Frame, Locals, mounts, symlinks>>

\* mountFsRO(mountPoint): bind-remount read-only; the error, if any, is
\* returned
mountFsRO(mountPoint, onOk, okRet) ==
    \/ /\ mountPoint \in MountPoints
       /\ mounts' = Remount(mountPoint, "ro")
       /\ log' = Append(log, RemountOp(mountPoint, "ok"))
       /\ IF onOk = "return" THEN Returns(okRet)
          ELSE pc' = onOk /\ UNCHANGED <<fn, ret>>
    \/ /\ \E e \in {"EBUSY", "err"} : log' = Append(log, RemountOp(mountPoint, e))
       /\ Returns("err")
       /\ UNCHANGED mounts

CreateRemountRO ==
    /\ fn = "CreateV1Cgroups" /\ pc = "remount_ro"
    /\ mountFsRO(CgroupTmpfs, "return", "ok")
    /\ UNCHANGED <<Frame, Locals, dirs, symlinks>>

-----------------------------------------------------------------------------
(* Paths of the RW-window carvers *)

CPath(c) == JoinPath(CgroupTmpfs, c)
SubcgroupPath(c, subcgroup) == JoinPath(JoinPath(CPath(c), subcgroup), <<"system.slice">>)
AppCgroup(c, subcgroup, serviceName) == JoinPath(SubcgroupPath(c, subcgroup), <<serviceName>>)
\* variant: the knob file of the slice instead of the one of the service
CgroupFilePathInSlice(c, subcgroup, serviceName, f) ==
    JoinPath(SubcgroupPath(c, subcgroup), <<f>>)

CgroupFilePath(c, subcgroup, serviceName, f) ==
    JoinPath(AppCgroup(c, subcgroup, serviceName), <<f>>)

-----------------------------------------------------------------------------
(* fixCpusetKnobs(cpusetPath) *)

CpusetKnobs == <<"cpuset.mems", "cpuset.cpus">>

\* strings.TrimSpace on a file's content (a sequence of tokens)
IsSpace(t) == t \in {"\n", " "}
RECURSIVE TrimLeft(_)
TrimLeft(d) == IF d # <<>> /\ IsSpace(Head(d)) THEN TrimLeft(Tail(d)) ELSE d
RECURSIVE TrimRight(_)
TrimRight(d) ==
    IF d # <<>> /\ IsSpace(d[Len(d)]) THEN TrimRight(SubSeq(d, 1, Len(d) - 1)) ELSE d
TrimSpace(d) == TrimRight(TrimLeft(d))

\* ioutil.ReadFile fails on a file that is not there
NoFile == <<"ENOENT">>
Readable(d) == d # NoFile

\* does the loop body reach the two writes for this knob
FixWrites(k) ==
    /\ Readable(cpuset[k].child)
    /\ TrimSpace(cpuset[k].child) = <<>>
    /\ Readable(cpuset[k].parent)

\* the whole function: errors of MkdirAll and WriteFile are ignored; w[k][n]
\* tells whether the n-th write to knob k takes effect
fixCpusetKnobs(cpusetPath, w) ==
    LET cgroupPathFix == JoinPath(cpusetPath, <<"system.slice">>)
        writes(k) ==
            IF FixWrites(k)
            THEN [n \in 1..2 |->
                    Op("write", JoinPath(cgroupPathFix, <<k>>), IF w[k][n] THEN "ok" ELSE "err")]
            ELSE <<>>
    IN /\ dirs' = dirs \cup {cgroupPathFix}
       /\ cpuset' = [k \in DOMAIN cpuset |->
                       IF FixWrites(k) /\ (w[k][1] \/ w[k][2])
                       THEN [cpuset[k] EXCEPT !.child = cpuset[k].parent]
                       ELSE cpuset[k]]
       /\ log' = log \o writes(CpusetKnobs[1]) \o writes(CpusetKnobs[2])

-----------------------------------------------------------------------------
(* RemountV1CgroupsRO(root, enabledCgroups, subcgroup, serviceNames) *)

RWFilesHere == getV1ControllerRWFiles(controllers[ci])

\* variant: the controller is remounted read-only before its services
CtrlHeadSkipsServices(cs, names, c) == IF c > Len(cs) THEN "sys_ro" ELSE "ctrl_ro"

\* head of the body of the controller loop for controller index c: the
\* cpuset workaround, the loop over the services, or the read-only remount
CtrlHead(cs, names, c) ==
    IF c > Len(cs) THEN "sys_ro"
    ELSE IF cs[c] = <<"cpuset">> THEN "fix_cpuset"
    ELSE IF Len(names) > 0 THEN "app_mkdir"
    ELSE "ctrl_ro"

\* the position after file f - 1 of service s: the next file, the next
\* service, or the end of the controller's service loop
AfterFile(s, f) ==
    IF f <= Len(RWFilesHere) THEN [pc |-> "knob", si |-> s, fi |-> f]
    ELSE IF s < Len(args.serviceNames) THEN [pc |-> "app_mkdir", si |-> s + 1, fi |-> 1]
    ELSE [pc |-> "ctrl_ro", si |-> s, fi |-> f]

CallRemountV1CgroupsRO ==
    /\ Idle /\ ncalls < MaxCalls
    /\ fn' = "RemountV1CgroupsRO"
    /\ \E sub \in Subcgroups, names \in ServiceLists :
         args' = [subcgroup |-> sub, serviceNames |-> names]
    /\ \E cs \in GetV1ControllerDirs(enabledCgroups) : controllers' = cs
    /\ ci' = 1 /\ si' = 1 /\ fi' = 1
    /\ pc' = CtrlHead(controllers', args'.serviceNames, 1)
    /\ links' = {}
    /\ log' = <<>>
    /\ ret' = "none"
    /\ ncalls' = ncalls + 1
    /\ UNCHANGED <<enabledCgroups, missing, mounts, dirs, symlinks, cpuset, pureVars>>

RemountFixCpuset ==
    /\ fn = "RemountV1CgroupsRO" /\ pc = "fix_cpuset"
    /\ \E w \in [DOMAIN cpuset -> [1..2 -> BOOLEAN]] :
         fixCpusetKnobs(CPath(controllers[ci]), w)
    /\ pc' = IF Len(args.serviceNames) > 0 THEN "app_mkdir" ELSE "ctrl_ro"
    /\ UNCHANGED <<enabledCgroups, missing, args, ncalls, Locals, mounts, symlinks,
                   fn, ret, pureVars>>

RemountMkdirApp ==
    /\ fn = "RemountV1CgroupsRO" /\ pc = "app_mkdir"
    /\ \/ /\ dirs' = dirs \cup {AppCgroup(controllers[ci], args.subcgroup, args.serviceNames[si])}
          /\ log' = Append(log, Op("mkdir",
                       AppCgroup(controllers[ci], args.subcgroup, args.serviceNames[si]), "ok"))
          /\ pc' = AfterFile(si, 1).pc
          /\ si' = AfterFile(si, 1).si
          /\ fi' = AfterFile(si, 1).fi
          /\ UNCHANGED <<fn, ret>>
       \/ /\ log' = Append(log, Op("mkdir",
                       AppCgroup(controllers[ci], args.subcgroup, args.serviceNames[si]), "err"))
          /\ Returns("err")
          /\ UNCHANGED <<dirs, si, fi>>
    /\ UNCHANGED <<Frame, controllers, ci, links, mounts, symlinks>>

\* one iteration of the loop over the files: os.Stat, then the bind mount
RemountKnob ==
    /\ fn = "RemountV1CgroupsRO" /\ pc = "knob"
    /\ LET f == RWFilesHere[fi]
           cgroupFilePath ==
               CgroupFilePath(controllers[ci], args.subcgroup, args.serviceNames[si], f)
       IN \/ /\ ~KnobExists(CPath(controllers[ci]), f)
             /\ log' = Append(log, Op("stat", cgroupFilePath, "ENOENT"))
             /\ pc' = AfterFile(si, fi + 1).pc
             /\ si' = AfterFile(si, fi + 1).si
             /\ fi' = AfterFile(si, fi + 1).fi
             /\ UNCHANGED <<mounts, fn, ret>>
          \/ /\ KnobExists(CPath(controllers[ci]), f)
             /\ mounts' = MountBind(cgroupFilePath)
             /\ log' = Append(log, Op("bind", cgroupFilePath, "ok"))
             /\ pc' = AfterFile(si, fi + 1).pc
             /\ si' = AfterFile(si, fi + 1).si
             /\ fi' = AfterFile(si, fi + 1).fi
             /\ UNCHANGED <<fn, ret>>
          \/ /\ KnobExists(CPath(controllers[ci]), f)
             /\ log' = Append(log, Op("bind", cgroupFilePath, "err"))
             /\ Returns("err")
             /\ UNCHANGED <<mounts, si, fi>>
    /\ UNCHANGED <<Frame, controllers, ci, links, dirs, symlinks>>

RemountCtrlRO ==
    /\ fn = "RemountV1CgroupsRO" /\ pc = "ctrl_ro"
    /\ mountFsRO(CPath(controllers[ci]), CtrlHead(controllers, args.serviceNames, ci + 1), "ok")
    /\ ci' = ci + 1 /\ si' = 1 /\ fi' = 1
    /\ UNCHANGED <<Frame, controllers, links, dirs, symlinks>>

RemountSysRO ==
    /\ fn = "RemountV1CgroupsRO" /\ pc = "sys_ro"
    /\ mountFsRO(SysPath, "return", "ok")
    /\ UNCHANGED <<Frame, Locals, dirs, symlinks>>

-----------------------------------------------------------------------------
(* RemountCgroupKnobsRW(enabledCgroups, subcgroup, serviceName, enterCmd)  *)
(* args.serviceNames holds the one serviceName.  MkdirAll and Stat run in  *)
(* the caller's namespace, where the cgroup hierarchies are mounted        *)
(* read-write; the two mount commands run through enterCmd inside the      *)
(* container's namespace.                                                  *)

\* the position after file f - 1 of controller c
AfterKnobFile(c, f) ==
    IF f <= Len(getV1ControllerRWFiles(controllers[c])) THEN [pc |-> "k_bind", ci |-> c, fi |-> f]
    ELSE IF c < Len(controllers) THEN [pc |-> "k_mkdir", ci |-> c + 1, fi |-> 1]
    ELSE [pc |-> "k_return", ci |-> c, fi |-> f]

CallRemountCgroupKnobsRW ==
    /\ Idle /\ ncalls < MaxCalls
    /\ fn' = "RemountCgroupKnobsRW"
    /\ \E sub \in Subcgroups, name \in Services :
         args' = [subcgroup |-> sub, serviceNames |-> <<name>>]
    /\ \E cs \in GetV1ControllerDirs(enabledCgroups) : controllers' = cs
    /\ ci' = 1 /\ si' = 1 /\ fi' = 1
    /\ pc' = IF Len(controllers') = 0 THEN "k_return" ELSE "k_mkdir"
    /\ links' = {}
    /\ log' = <<>>
    /\ ret' = "none"
    /\ ncalls' = ncalls + 1
    /\ UNCHANGED <<enabledCgroups, missing, mounts, dirs, symlinks, cpuset, pureVars>>

KnobsMkdirApp ==
    /\ fn = "RemountCgroupKnobsRW" /\ pc = "k_mkdir"
    /\ \/ /\ dirs' = dirs \cup {AppCgroup(controllers[ci], args.subcgroup, args.serviceNames[1])}
          /\ log' = Append(log, Op("mkdir",
                       AppCgroup(controllers[ci], args.subcgroup, args.serviceNames[1]), "ok"))
          /\ pc' = AfterKnobFile(ci, 1).pc
          /\ ci' = AfterKnobFile(ci, 1).ci
          /\ fi' = AfterKnobFile(ci, 1).fi
          /\ UNCHANGED <<fn, ret>>
       \/ /\ log' = Append(log, Op("mkdir",
                       AppCgroup(controllers[ci], args.subcgroup, args.serviceNames[1]), "err"))
          /\ Returns("err")
          /\ UNCHANGED <<dirs, ci, fi>>
    /\ UNCHANGED <<Frame, controllers, si, links, mounts, symlinks>>

\* variant: a file that is not there ends the loop over the files of the
\* controller
KnobsMountBindBreaks ==
    /\ fn = "RemountCgroupKnobsRW" /\ pc = "k_bind"
    /\ LET f == getV1ControllerRWFiles(controllers[ci])[fi]
           last == Len(getV1ControllerRWFiles(controllers[ci]))
           cgroupFilePath ==
               CgroupFilePath(controllers[ci], args.subcgroup, args.serviceNames[1], f)
           visible == CPath(controllers[ci]) \in MountPoints
       IN \/ /\ f \in missing
             /\ log' = Append(log, Op("stat", cgroupFilePath, "ENOENT"))
             /\ pc' = AfterKnobFile(ci, last + 1).pc
             /\ ci' = AfterKnobFile(ci, last + 1).ci
             /\ fi' = AfterKnobFile(ci, last + 1).fi
             /\ UNCHANGED <<mounts, fn, ret>>
          \/ /\ f \notin missing /\ visible
             /\ mounts' = MountBind(cgroupFilePath)
             /\ log' = Append(log, Op("enter mount --bind", cgroupFilePath, "ok"))
             /\ pc' = "k_rw"
             /\ UNCHANGED <<ci, fi, fn, ret>>
          \/ /\ f \notin missing
             /\ log' = Append(log, Op("enter mount --bind", cgroupFilePath, "err"))
             /\ Returns("err")
             /\ UNCHANGED <<mounts, ci, fi>>
    /\ UNCHANGED <<Frame, controllers, si, links, dirs, symlinks>>

\* os.Stat in the caller's namespace, then cmdMountBind.Run()
KnobsMountBind ==
    /\ fn = "RemountCgroupKnobsRW" /\ pc = "k_bind"
    /\ LET f == getV1ControllerRWFiles(controllers[ci])[fi]
           cgroupFilePath ==
               CgroupFilePath(controllers[ci], args.subcgroup, args.serviceNames[1], f)
           visible == CPath(controllers[ci]) \in MountPoints
       IN \/ /\ f \in missing
             /\ log' = Append(log, Op("stat", cgroupFilePath, "ENOENT"))
             /\ pc' = AfterKnobFile(ci, fi + 1).pc
             /\ ci' = AfterKnobFile(ci, fi + 1).ci
             /\ fi' = AfterKnobFile(ci, fi + 1).fi
             /\ UNCHANGED <<mounts, fn, ret>>
          \/ /\ f \notin missing /\ visible
             /\ mounts' = MountBind(cgroupFilePath)
             /\ log' = Append(log, Op("enter mount --bind", cgroupFilePath, "ok"))
             /\ pc' = "k_rw"
             /\ UNCHANGED <<ci, fi, fn, ret>>
          \/ /\ f \notin missing
             /\ log' = Append(log, Op("enter mount --bind", cgroupFilePath, "err"))
             /\ Returns("err")
             /\ UNCHANGED <<mounts, ci, fi>>
    /\ UNCHANGED <<Frame, controllers, si, links, dirs, symlinks>>

\* variant: a failure of the remount is dropped and the loop goes on
KnobsRemountRWIgnoresError ==
    /\ fn = "RemountCgroupKnobsRW" /\ pc = "k_rw"
    /\ LET f == getV1ControllerRWFiles(controllers[ci])[fi]
           cgroupFilePath ==
               CgroupFilePath(controllers[ci], args.subcgroup, args.serviceNames[1], f)
       IN /\ \/ /\ mounts' = Remount(cgroupFilePath, "rw")
                /\ log' = Append(log, Op("enter mount -o remount,bind,rw", cgroupFilePath, "ok"))
             \/ /\ log' = Append(log, Op("enter mount -o remount,bind,rw", cgroupFilePath, "err"))
                /\ UNCHANGED mounts
          /\ pc' = AfterKnobFile(ci, fi + 1).pc
          /\ ci' = AfterKnobFile(ci, fi + 1).ci
          /\ fi' = AfterKnobFile(ci, fi + 1).fi
          /\ UNCHANGED <<fn, ret>>
    /\ UNCHANGED <<Frame, controllers, si, links, dirs, symlinks>>

\* cmdRemountRW.Run()
KnobsRemountRW ==
    /\ fn = "RemountCgroupKnobsRW" /\ pc = "k_rw"
    /\ LET f == getV1ControllerRWFiles(controllers[ci])[fi]
           cgroupFilePath ==
               CgroupFilePath(controllers[ci], args.subcgroup, args.serviceNames[1], f)
       IN \/ /\ mounts' = Remount(cgroupFilePath, "rw")
             /\ log' = Append(log, Op("enter mount -o remount,bind,rw", cgroupFilePath, "ok"))
             /\ pc' = AfterKnobFile(ci, fi + 1).pc
             /\ ci' = AfterKnobFile(ci, fi + 1).ci
             /\ fi' = AfterKnobFile(ci, fi + 1).fi
             /\ UNCHANGED <<fn, ret>>
          \/ /\ log' = Append(log, Op("enter mount -o remount,bind,rw", cgroupFilePath, "err"))
             /\ Returns("err")
             /\ UNCHANGED <<mounts, ci, fi>>
    /\ UNCHANGED <<Frame, controllers, si, links, dirs, symlinks>>

KnobsReturn ==
    /\ fn = "RemountCgroupKnobsRW" /\ pc = "k_return"
    /\ Returns("ok")
    /\ UNCHANGED <<Frame, Locals, Kernel, log>>

-----------------------------------------------------------------------------
(* Numbers.  The quantities reach past 2^31, so a number is kept in decimal: *)
(* a sign and the digits of its magnitude, most significant first, without   *)
(* leading zeros (zero has no digits).  Every value the code computes here   *)
(* fits an int64, and int is 64 bits wide on the platforms rkt runs on, so   *)
(* the conversions between int64 and int do not change a value.              *)

RECURSIVE Strip(_)
Strip(m) == IF m # <<>> /\ Head(m) = 0 THEN Strip(Tail(m)) ELSE m

Num(neg, mag) == [neg |-> neg /\ Strip(mag) # <<>>, mag |-> Strip(mag)]

DropLast(m, k) == IF Len(m) <= k THEN <<>> ELSE SubSeq(m, 1, Len(m) - k)

\* some of the last k digits is not zero
HasRemainder(m, k) == \E i \in 1..Len(m) : i > Len(m) - k /\ m[i] # 0

RECURSIVE IncMag(_)
IncMag(m) ==
    IF m = <<>> THEN <<1>>
    ELSE IF m[Len(m)] < 9 THEN [m EXCEPT ![Len(m)] = m[Len(m)] + 1]
    ELSE IncMag(DropLast(m, 1)) \o <<0>>

RECURSIVE DecMag(_)
DecMag(m) ==
    IF m[Len(m)] > 0 THEN Strip([m EXCEPT ![Len(m)] = m[Len(m)] - 1])
    ELSE Strip(DecMag(DropLast(m, 1)) \o <<9>>)

MagLess(a, b) ==
    \/ Len(a) < Len(b)
    \/ /\ Len(a) = Len(b)
       /\ \E i \in 1..Len(a) : a[i] < b[i] /\ \A j \in 1..(i - 1) : a[j] = b[j]

Less(x, y) ==
    IF x.neg /\ ~y.neg THEN TRUE
    ELSE IF ~x.neg /\ y.neg THEN FALSE
    ELSE IF x.neg THEN MagLess(y.mag, x.mag)
    ELSE MagLess(x.mag, y.mag)

Greater(x, y) == Less(y, x)

\* x / 10 and x / 1000 of Go: the quotient truncated toward zero
GoDiv(x, zeros) == Num(x.neg, DropLast(x.mag, zeros))

DigitChars == <<"0", "1", "2", "3", "4", "5", "6", "7", "8", "9">>

\* strconv.Itoa
Itoa(x) ==
    IF x.mag = <<>> THEN <<"0">>
    ELSE (IF x.neg THEN <<"-">> ELSE <<>>) \o [i \in 1..Len(x.mag) |-> DigitChars[x.mag[i] + 1]]

-----------------------------------------------------------------------------
(* resource.Quantity: an exact decimal number, kept as its count of        *)
(* milli-units.  Value() and MilliValue() round up to the next integer.    *)

\* resource.MaxMilliValue = int64(((1 << 63) - 1) / 1000)
MaxMilliValue == Num(FALSE, <<9, 2, 2, 3, 3, 7, 2, 0, 3, 6, 8, 5, 4, 7, 7, 5>>)

NilLimit == [nil |-> TRUE, milli |-> Num(FALSE, <<>>)]
Quantity(neg, mag) == [nil |-> FALSE, milli |-> Num(neg, mag)]

\* limit.MilliValue()
MilliValue(limit) == limit.milli

\* limit.Value(): the quantity in whole units, a fraction rounded up (away
\* from zero)
Value(limit) ==
    LET whole == DropLast(limit.milli.mag, 3)
    IN IF HasRemainder(limit.milli.mag, 3)
       THEN Num(limit.milli.neg, IncMag(whole))
       ELSE Num(limit.milli.neg, whole)

\* unit.NewUnitOption(section, name, value)
NewUnitOption(section, name, value) == [section |-> section, name |-> name, value |-> value]

\* what a translator returns: the options (nil with an error) and the error
Returned2(opts, err) == [opts |-> opts, optsNil |-> FALSE, err |-> err]
ReturnedNil(err) == [opts |-> <<>>, optsNil |-> TRUE, err |-> err]

\* variant: the quota is the count of milli-units itself
addCpuLimitNoScale(opts, limit) ==
    IF Greater(Value(limit), MaxMilliValue)
    THEN ReturnedNil("cpu limit exceeds the maximum millivalue")
    ELSE Returned2(Append(opts, NewUnitOption("Service", "CPUQuota",
                                              Itoa(MilliValue(limit)) \o <<"%">>)), "nil")

\* variant: the limit is not validated
addCpuLimitNoCheck(opts, limit) ==
    Returned2(Append(opts, NewUnitOption("Service", "CPUQuota",
                                         Itoa(GoDiv(MilliValue(limit), 1)) \o <<"%">>)), "nil")

addCpuLimit(opts, limit) ==
    IF Greater(Value(limit), MaxMilliValue)
    THEN ReturnedNil("cpu limit exceeds the maximum millivalue")
    ELSE Returned2(Append(opts, NewUnitOption("Service", "CPUQuota",
                                              Itoa(GoDiv(MilliValue(limit), 1)) \o <<"%">>)), "nil")

\* variant: the limit is rendered in milli-units
addMemoryLimitMilli(opts, limit) ==
    Returned2(Append(opts, NewUnitOption("Service", "MemoryLimit", Itoa(MilliValue(limit)))), "nil")

addMemoryLimit(opts, limit) ==
    Returned2(Append(opts, NewUnitOption("Service", "MemoryLimit", Itoa(Value(limit)))), "nil")

isolatorFuncs == [k \in {"cpu", "memory"} |-> IF k = "cpu" THEN "addCpuLimit" ELSE "addMemoryLimit"]

\* the call isolatorFuncs[isolator](opts, limit)
CallIsolatorFunc(f, opts, limit) ==
    IF f = "addCpuLimit" THEN addCpuLimit(opts, limit) ELSE addMemoryLimit(opts, limit)

-----------------------------------------------------------------------------
(* Kernel support of an isolator *)

\* 0x63677270
Cgroup2fsMagicNumber == 1667723888

\* what statfs reports for /sys/fs/cgroup: an error, or the file system
\* type, cgroup2 or another one (tmpfs, 0x01021994, with the v1 layout)
StatfsFailed == [err |-> TRUE, type |-> 0]
StatfsType(t) == [err |-> FALSE, type |-> t]
V1FsTypes == {16914836}

NoControllersFile == <<"ENOENT">>

\* strings.Split(text, " ")
SplitSpace(text) == SelectSeq(text, LAMBDA t : t # " ")

\* IsCgroupUnified("/")
IsCgroupUnified ==
    IF statfs.err THEN [val |-> FALSE, err |-> "statfs"]
    ELSE [val |-> statfs.type = Cgroup2fsMagicNumber, err |-> "nil"]

\* GetEnabledV2Controllers()
GetEnabledV2Controllers ==
    IF v2Controllers = NoControllersFile THEN [val |-> <<>>, err |-> "open"]
    ELSE [val |-> SplitSpace(v2Controllers), err |-> "nil"]

\* the os.Stat calls of the v1 branch, up to the first file that is missing
RECURSIVE StatsUntilMissing(_)
StatsUntilMissing(files) ==
    IF files = <<>> THEN <<>>
    ELSE IF Head(files) \in missing THEN <<"stat " \o Head(files)>>
    ELSE <<"stat " \o Head(files)>> \o StatsUntilMissing(Tail(files))

\* variant: every isolator is reported as supported
IsIsolatorSupportedAlways(isolator) ==
    [val |-> TRUE, err |-> "nil", probes |-> <<>>]

\* IsIsolatorSupported(isolator); probes lists the kernel state it read
IsIsolatorSupported(isolator) ==
    IF IsCgroupUnified.err # "nil"
    THEN [val |-> FALSE, err |-> "error determining cgroup version", probes |-> <<"statfs">>]
    ELSE IF IsCgroupUnified.val
    THEN IF GetEnabledV2Controllers.err # "nil"
         THEN [val |-> FALSE, err |-> "error determining enabled controllers",
               probes |-> <<"statfs", "open cgroup.controllers">>]
         ELSE [val |-> \E i \in 1..Len(GetEnabledV2Controllers.val) :
                           GetEnabledV2Controllers.val[i] = isolator,
               err |-> "nil", probes |-> <<"statfs", "open cgroup.controllers">>]
    ELSE IF isolator \in DOMAIN v1CgroupControllerRWFiles
    THEN [val |-> \A i \in 1..Len(v1CgroupControllerRWFiles[isolator]) :
                      v1CgroupControllerRWFiles[isolator][i] \notin missing,
          err |-> "nil",
          probes |-> <<"statfs">> \o StatsUntilMissing(v1CgroupControllerRWFiles[isolator])]
    ELSE [val |-> FALSE, err |-> "nil", probes |-> <<"statfs">>]

Result(r, panicked, probes) ==
    [opts |-> r.opts, optsNil |-> r.optsNil, err |-> r.err, panicked |-> panicked, probes |-> probes]

\* variant: the kernel is asked before the limit is looked at
MaybeAddIsolatorProbesFirst(opts, isolator, limit) ==
    LET sup == IsIsolatorSupported(isolator)
    IN IF sup.err # "nil" THEN Result(ReturnedNil(sup.err), FALSE, sup.probes)
       ELSE Result(Returned2(opts, "nil"), FALSE, sup.probes)

\* MaybeAddIsolator(opts, isolator, limit); calling the nil entry of
\* isolatorFuncs panics
MaybeAddIsolator(opts, isolator, limit) ==
    IF limit.nil THEN Result(Returned2(opts, "nil"), FALSE, <<>>)
    ELSE LET sup == IsIsolatorSupported(isolator)
         IN IF sup.err # "nil" THEN Result(ReturnedNil(sup.err), FALSE, sup.probes)
            ELSE IF sup.val
            THEN IF isolator \notin DOMAIN isolatorFuncs
                 THEN Result(ReturnedNil("nil"), TRUE, sup.probes)
                 ELSE LET r == CallIsolatorFunc(isolatorFuncs[isolator], opts, limit)
                      IN IF r.err # "nil" THEN Result(ReturnedNil(r.err), FALSE, sup.probes)
                         ELSE Result(r, FALSE, sup.probes)
            ELSE Result(Returned2(opts, "nil"), FALSE, sup.probes)

\* the inputs the function is run on
OptSets ==
    { <<>>,
      <<NewUnitOption("Unit", "Description", <<"a", "p", "p">>),
        NewUnitOption("Service", "Restart", <<"n", "o">>)>> }

Isolators == {"cpu", "memory", "devices", "blkio"}

Limits ==
    { NilLimit,
      Quantity(FALSE, <<>>), Quantity(FALSE, <<5>>), Quantity(FALSE, <<1, 0>>),
      Quantity(FALSE, <<1, 5>>), Quantity(FALSE, <<5, 0, 0>>), Quantity(FALSE, <<9, 9, 9>>),
      Quantity(FALSE, <<1, 0, 0, 0>>), Quantity(FALSE, <<1, 0, 0, 1>>),
      Quantity(FALSE, <<1, 3, 4, 2, 1, 7, 7, 2, 8, 0, 0, 0>>),
      Quantity(FALSE, <<1, 3, 4, 2, 1, 7, 7, 2, 8, 5, 0, 0>>),
      Quantity(TRUE, <<5>>), Quantity(TRUE, <<1, 0>>), Quantity(TRUE, <<1, 5, 0, 0>>),
      Quantity(FALSE, <<9, 2, 2, 3, 3, 7, 2, 0, 3, 6, 8, 5, 4, 7, 7, 5>>),
      Quantity(FALSE, <<9, 2, 2, 3, 3, 7, 2, 0, 3, 6, 8, 5, 4, 7, 7, 6>>),
      Quantity(FALSE, <<9, 2, 2, 3, 3, 7, 2, 0, 3, 6, 8, 5, 4, 7, 7, 5, 0, 0, 0>>),
      Quantity(FALSE, <<9, 2, 2, 3, 3, 7, 2, 0, 3, 6, 8, 5, 4, 7, 7, 5, 0, 0, 1>>),
      Quantity(FALSE, <<9, 2, 2, 3, 3, 7, 2, 0, 3, 6, 8, 5, 4, 7, 7, 5, 8, 0, 7, 0, 0, 0>>) }

NoCall == [opts |-> <<>>, isolator |-> "none", limit |-> NilLimit]
NoResult == Result(Returned2(<<>>, "nil"), FALSE, <<>>)

MaybeAddIsolatorCall ==
    /\ \E opts \in OptSets, isolator \in Isolators, limit \in Limits :
         /\ isoIn' = [opts |-> opts, isolator |-> isolator, limit |-> limit]
         /\ isoOut' = MaybeAddIsolator(opts, isolator, limit)
    /\ UNCHANGED <<mountVars, statfs, v2Controllers, procVars, execVars>>

-----------------------------------------------------------------------------

\* the cpuset knobs of the container's cpuset hierarchy before the pod runs:
\* the slice's knob is missing, empty or configured; the parent's is
\* configured or unreadable
CpusetStates ==
    [{"cpuset.mems", "cpuset.cpus"} ->
        [child : {NoFile, <<"\n">>, <<"0", "\n">>}, parent : {NoFile, <<"0-3", "\n">>}]]

\* the states a build starts from: the two knobs of the parent are alike
CpusetInits ==
    {s \in CpusetStates :
        /\ s["cpuset.mems"].parent = s["cpuset.cpus"].parent
        /\ s["cpuset.mems"].child \in {s["cpuset.cpus"].child, <<"\n">>}}

HasCpuset(cgroups) == \E h \in DOMAIN cgroups : cgroups[h] = <<"cpuset">>

(* Membership of the calling process: JoinV1Subcgroup and the resolvers.   *)
(* A text is a sequence of tokens; ":" and "," are tokens like "/".         *)

Colon == ":"

NoJoin == [controller |-> <<>>, subcgroup |-> <<>>, err |-> "none"]
NoRead == [fn |-> "none"]

\* strings.Split(s, sep): the pieces of s between the separators
RECURSIVE Split(_, _)
Split(s, sep) ==
    IF \A i \in 1..Len(s) : s[i] # sep THEN <<s>>
    ELSE LET k == CHOOSE i \in 1..Len(s) : s[i] = sep /\ \A j \in 1..(i - 1) : s[j] # sep
         IN <<SubSeq(s, 1, k - 1)>> \o Split(SubSeq(s, k + 1, Len(s)), sep)

\* strings.SplitN(s, sep, n): at most n pieces, the last one the unsplit rest
RECURSIVE SplitN(_, _, _)
SplitN(s, sep, n) ==
    IF n <= 1 \/ \A i \in 1..Len(s) : s[i] # sep THEN <<s>>
    ELSE LET k == CHOOSE i \in 1..Len(s) : s[i] = sep /\ \A j \in 1..(i - 1) : s[j] # sep
         IN <<SubSeq(s, 1, k - 1)>> \o SplitN(SubSeq(s, k + 1, Len(s)), sep, n - 1)

\* filepath.Clean of an absolute path, on its components: empty components
\* and "." are dropped, ".." drops the component before it (none at the root)
RECURSIVE Resolve(_, _)
Resolve(comps, stack) ==
    IF comps = <<>> THEN stack
    ELSE LET c == Head(comps)
         IN Resolve(Tail(comps),
                    IF c = <<>> \/ c = <<".">> THEN stack
                    ELSE IF c = <<"..">>
                         THEN (IF stack = <<>> THEN stack ELSE SubSeq(stack, 1, Len(stack) - 1))
                         ELSE Append(stack, c))

\* filepath.Join("/sys/fs/cgroup", controller, subcgroup): the components of
\* the cleaned path
FilepathJoin(controller, subcgroup) ==
    Resolve(<<<<"sys">>, <<"fs">>, <<"cgroup">>>> \o Split(controller, Sep) \o Split(subcgroup, Sep),
            <<>>)

\* the name of a cgroup as the kernel prints it: "/" and the components
RECURSIVE CgroupName(_)
CgroupName(comps) ==
    IF comps = <<>> THEN <<Sep>>
    ELSE IF Len(comps) = 1 THEN <<Sep>> \o comps[1]
    ELSE <<Sep>> \o comps[1] \o CgroupName(Tail(comps))

\* the hierarchy mounted on /sys/fs/cgroup/<d>, reached by its directory or
\* by the symlink of one of its controllers; 0 when d is no such name
HierarchyAt(d) ==
    LET hits == {h \in 1..Len(hierarchies) :
                    \/ hierarchies[h].dir = d
                    \/ /\ Len(hierarchies[h].controllers) > 1
                       /\ \E i \in 1..Len(hierarchies[h].controllers) :
                            d = <<hierarchies[h].controllers[i]>>}
    IN IF hits = {} THEN 0 ELSE CHOOSE h \in hits : TRUE

\* /proc/self/cgroup: one line "id:controllers:path" per hierarchy
MembershipFile ==
    [h \in 1..Len(hierarchies) |->
        <<hierarchies[h].id, Colon>> \o JoinComma(hierarchies[h].controllers)
            \o <<Colon>> \o membership[h]]

JoinControllers ==
    {<<"cpu">>, <<"memory">>, <<"cpu", Comma, "cpuacct">>, <<"systemd">>, <<"blkio">>}
SubcgroupInputs ==
    {<<Sep, "machine">>, <<"machine">>, <<Sep, "machine", Sep, "a", Colon, "b">>,
     <<Sep, "machine", Sep>>, <<"machine", Sep, "..", Sep, "b">>}

\* JoinV1Subcgroup(controller, subcgroup): MkdirAll, then the pid is written
\* to cgroup.procs, which moves the process when the directory is a cgroup
JoinV1SubcgroupCall ==
    /\ ncalls < MaxJoins
    /\ ncalls' = ncalls + 1
    /\ \E controller \in JoinControllers, subcgroup \in SubcgroupInputs :
         LET path == FilepathJoin(controller, subcgroup)
             h == IF Len(path) >= 4 THEN HierarchyAt(path[4]) ELSE 0
         IN \/ /\ \E e \in {"error creating subcgroup", "error adding ourselves to the subcgroup"} :
                    lastJoin' = [controller |-> controller, subcgroup |-> subcgroup, err |-> e]
               /\ UNCHANGED membership
            \/ /\ lastJoin' = [controller |-> controller, subcgroup |-> subcgroup, err |-> "nil"]
               /\ membership' = IF h = 0 THEN membership
                                ELSE [membership EXCEPT ![h] = CgroupName(SubSeq(path, 5, Len(path)))]
    /\ call' = NoRead
    /\ UNCHANGED <<enabledCgroups, missing, mounts, dirs, symlinks, fn, pc, args,
                   controllers, ci, si, fi, links, log, ret, cpuset, isoVars, hierarchies,
                   execVars>>

\* variant: the rest of the line after the third ":" is lost
RECURSIVE parseV1CgroupControllerSplitAll(_, _)
parseV1CgroupControllerSplitAll(lines, controller) ==
    IF lines = <<>> THEN [parts |-> <<>>, err |-> "controller not found"]
    ELSE LET parts == Split(Head(lines), Colon)
         IN IF Len(parts) < 3 THEN [parts |-> <<>>, err |-> "error parsing /proc/self/cgroup"]
            ELSE IF \E i \in 1..Len(Split(parts[2], Comma)) : Split(parts[2], Comma)[i] = controller
                 THEN [parts |-> parts, err |-> "nil"]
                 ELSE parseV1CgroupControllerSplitAll(Tail(lines), controller)

\* parseV1CgroupController(cgroupPath, controller) on the lines of the file
RECURSIVE parseV1CgroupController(_, _)
parseV1CgroupController(lines, controller) ==
    IF lines = <<>> THEN [parts |-> <<>>, err |-> "controller not found"]
    ELSE LET parts == SplitN(Head(lines), Colon, 3)
         IN IF Len(parts) < 3 THEN [parts |-> <<>>, err |-> "error parsing /proc/self/cgroup"]
            ELSE IF \E i \in 1..Len(Split(parts[2], Comma)) : Split(parts[2], Comma)[i] = controller
                 THEN [parts |-> parts, err |-> "nil"]
                 ELSE parseV1CgroupController(Tail(lines), controller)

\* variant: the first line of the file is taken, whatever it lists
GetOwnV1CgroupPathFirstLine(controller) ==
    LET parts == SplitN(MembershipFile[1], Colon, 3)
    IN [path |-> parts[3], err |-> "nil"]

GetOwnV1CgroupPath(controller) ==
    LET r == parseV1CgroupController(MembershipFile, controller)
    IN IF r.err # "nil" THEN [path |-> <<>>, err |-> r.err]
       ELSE [path |-> r.parts[3], err |-> "nil"]

ReadControllers == JoinControllers \cup {<<"cpuacct">>, <<"name=systemd">>}

GetOwnV1CgroupPathCall ==
    /\ \E controller \in ReadControllers :
         call' = [fn |-> "GetOwnV1CgroupPath", controller |-> controller, file |-> MembershipFile,
                  path |-> GetOwnV1CgroupPath(controller).path,
                  err |-> GetOwnV1CgroupPath(controller).err]
    /\ UNCHANGED <<mountVars, isoVars, hierarchies, membership, lastJoin, execVars>>

\* the hierarchies of the hosts the process runs on
Hierarchy(id, cs, dir) == [id |-> id, controllers |-> cs, dir |-> dir]
Systemd == Hierarchy("1", <<"name=systemd">>, <<"systemd">>)
Hosts ==
    { <<Hierarchy("4", <<"cpu", "cpuacct">>, <<"cpu", Comma, "cpuacct">>),
        Hierarchy("3", <<"memory">>, <<"memory">>), Systemd>>,
      <<Hierarchy("5", <<"cpuacct">>, <<"cpuacct">>), Hierarchy("4", <<"cpu">>, <<"cpu">>),
        Hierarchy("3", <<"memory">>, <<"memory">>), Systemd>>,
      <<Hierarchy("5", <<"cpuacct">>, <<"cpuacct">>),
        Hierarchy("3", <<"memory">>, <<"memory">>), Systemd,
        Hierarchy("0", <<>>, <<"unified">>)>> }

(* The controller table /proc/cgroups.  A line is the sequence of its      *)
(* whitespace-separated fields; a field is a sequence of atoms, each a      *)
(* decimal digit or a piece of other text: "10" is <<"1", "0">>, "1x" is    *)
(* <<"1", "x">>, "cpu" is <<"cpu">>.                                        *)

MaxTableLines == 4

Digits == <<"0", "1", "2", "3", "4", "5", "6", "7", "8", "9">>
IsDigit(a) == \E d \in 1..Len(Digits) : Digits[d] = a
DigitVal(a) == (CHOOSE d \in 1..Len(Digits) : Digits[d] = a) - 1
IsNumber(field) == field # <<>> /\ \A i \in 1..Len(field) : IsDigit(field[i])

\* the value of a run of decimal digits
RECURSIVE Dec(_)
Dec(ds) == IF ds = <<>> THEN 0 ELSE Dec(SubSeq(ds, 1, Len(ds) - 1)) * 10 + DigitVal(ds[Len(ds)])

\* the verb %d: the digits the input starts with are the number and the rest
\* of the field stays in the input; no digit there is an error
ScanInt(input) ==
    IF input = <<>> THEN [ok |-> FALSE, val |-> 0, rest |-> input]
    ELSE LET tok == Head(input)
             k == IF \A i \in 1..Len(tok) : IsDigit(tok[i]) THEN Len(tok)
                  ELSE (CHOOSE i \in 1..Len(tok) : ~IsDigit(tok[i]) /\ \A j \in 1..(i - 1) : IsDigit(tok[j])) - 1
         IN IF k = 0 THEN [ok |-> FALSE, val |-> 0, rest |-> input]
            ELSE [ok |-> TRUE, val |-> Dec(SubSeq(tok, 1, k)),
                  rest |-> IF k = Len(tok) THEN Tail(input)
                           ELSE <<SubSeq(tok, k + 1, Len(tok))>> \o Tail(input)]

\* fmt.Sscanf(line, "%s %d %d %d", &controller, &hierarchy, &num, &enabled):
\* the scan stops at the first verb that fails, the variables scanned before
\* keep their values and the others stay zero; the error is not looked at
\* and neither is the input after the fourth number
Sscanf(line) ==
    LET zero == [controller |-> <<>>, hierarchy |-> 0, num |-> 0, enabled |-> 0]
    IN IF line = <<>> THEN zero
       ELSE LET c == [zero EXCEPT !.controller = Head(line)]
                h == ScanInt(Tail(line))
                n == ScanInt(h.rest)
                e == ScanInt(n.rest)
            IN IF ~h.ok THEN c
               ELSE IF ~n.ok THEN [c EXCEPT !.hierarchy = h.val]
               ELSE IF ~e.ok THEN [c EXCEPT !.hierarchy = h.val, !.num = n.val]
               ELSE [c EXCEPT !.hierarchy = h.val, !.num = n.val, !.enabled = e.val]

\* the loop over the lines: an enabled controller goes to the end of the
\* list of its hierarchy
RECURSIVE ScanLines(_, _)
ScanLines(lines, cgroups) ==
    IF lines = <<>> THEN cgroups
    ELSE LET r == Sscanf(Head(lines))
         IN ScanLines(Tail(lines),
                      IF r.enabled = 1
                      THEN IF r.hierarchy \notin DOMAIN cgroups
                           THEN cgroups @@ (r.hierarchy :> <<r.controller>>)
                           ELSE [cgroups EXCEPT ![r.hierarchy] = Append(@, r.controller)]
                      ELSE cgroups)

\* variant: the first line is scanned like the others
parseV1CgroupsKeepFirst(f) ==
    IF f.err # "nil" THEN [cgroups |-> <<>>, err |-> f.err]
    ELSE [cgroups |-> ScanLines(f.lines, <<>>), err |-> "nil"]

\* parseV1Cgroups(f): f.lines are the lines the reader delivers and f.err is
\* what sc.Err() reports after the last of them
parseV1Cgroups(f) ==
    IF f.err # "nil" THEN [cgroups |-> <<>>, err |-> f.err]
    ELSE [cgroups |-> ScanLines(IF f.lines = <<>> THEN <<>> ELSE Tail(f.lines), <<>>),
          err |-> "nil"]

TableHeader == <<<<"#subsys_name">>, <<"hierarchy">>, <<"num_cgroups">>, <<"enabled">>>>
TableLines ==
    { TableHeader,
      <<<<"cpu">>, <<"3">>, <<"1">>, <<"1">>>>,
      <<<<"cpuacct">>, <<"3">>, <<"1">>, <<"1">>>>,
      <<<<"memory">>, <<"1", "0">>, <<"2">>, <<"1">>>>,
      <<<<"blkio">>, <<"4">>, <<"1">>, <<"0">>>>,
      <<>>,
      <<<<"pids">>, <<"5">>, <<"1">>>>,
      <<<<"pids">>, <<"x">>, <<"1">>, <<"1">>>>,
      <<<<"devices">>, <<"5">>, <<"1">>, <<"1">>, <<"junk">>>>,
      <<<<"freezer">>, <<"6">>, <<"1">>, <<"1", "x">>>> }

RECURSIVE Tables(_)
Tables(n) ==
    IF n = 0 THEN {<<>>}
    ELSE Tables(n - 1) \cup {Append(t, l) : t \in {u \in Tables(n - 1) : Len(u) = n - 1}, l \in TableLines}

\* the function has no state: one call of a behaviour stands for every call
parseV1CgroupsCall ==
    /\ call = NoRead
    /\ \E lines \in Tables(MaxTableLines), err \in {"nil", "read error"} :
         LET f == [lines |-> lines, err |-> err]
         IN call' = [fn |-> "parseV1Cgroups", f |-> f,
                     cgroups |-> parseV1Cgroups(f).cgroups, err |-> parseV1Cgroups(f).err]
    /\ UNCHANGED <<mountVars, isoVars, hierarchies, membership, lastJoin, execVars>>


(* journal2cri: a journal entry becomes a CRI log entry.  A text is a      *)
(* sequence of atoms: "-", a decimal digit or a piece of other text;        *)
(* "my-app-10" is <<"my", "-", "app", "-", "1", "0">>.                      *)

Hyphen == "-"

\* strings.SplitAfterN(s, "-", 2): s cut after its first "-"
SplitAfterN2(s) ==
    IF \A i \in 1..Len(s) : s[i] # Hyphen THEN <<s>>
    ELSE LET k == CHOOSE i \in 1..Len(s) : s[i] = Hyphen /\ \A j \in 1..(i - 1) : s[j] # Hyphen
         IN <<SubSeq(s, 1, k), SubSeq(s, k + 1, Len(s))>>

\* strconv.Atoi: an optional sign and decimal digits, nothing else
Atoi(s) ==
    LET signed == s # <<>> /\ s[1] \in {Hyphen, "+"}
        body == IF signed THEN Tail(s) ELSE s
    IN IF ~IsNumber(body) THEN [val |-> 0, err |-> "invalid syntax"]
       ELSE [val |-> IF signed /\ s[1] = Hyphen THEN 0 - Dec(body) ELSE Dec(body), err |-> "nil"]

\* strings.TrimRight(s, "-")
RECURSIVE TrimRightHyphen(_)
TrimRightHyphen(s) ==
    IF s # <<>> /\ s[Len(s)] = Hyphen THEN TrimRightHyphen(SubSeq(s, 1, Len(s) - 1)) ELSE s

\* entry.Fields[key]: the empty text when the key is absent
Field(entry, key) == IF key \in DOMAIN entry.Fields THEN entry.Fields[key] ELSE <<>>

NilEntry == [nil |-> TRUE]

\* ProcessEntry(entry); the Timestamp is time.Unix(0, microseconds * 1000),
\* written as its decimal nanoseconds (the journal's timestamps are far
\* below the 2^63 / 1000 microseconds at which the product wraps)
ProcessEntry(entry) ==
    IF "SYSLOG_IDENTIFIER" \notin DOMAIN entry.Fields THEN NilEntry
    ELSE LET parts == SplitAfterN2(entry.Fields["SYSLOG_IDENTIFIER"])
         IN IF Len(parts) # 2 THEN NilEntry
            ELSE LET appNumber == Atoi(parts[2])
                     appName == TrimRightHyphen(parts[1])
                     outStream == Field(entry, "_TRANSPORT")
                 IN IF appNumber.err # "nil" THEN NilEntry
                    ELSE IF Len(appName) = 0 THEN NilEntry
                    ELSE IF outStream # <<"stdout">> /\ outStream # <<"stderr">> THEN NilEntry
                    ELSE [nil |-> FALSE, AppName |-> appName, AppAttempt |-> appNumber.val,
                          Message |-> Field(entry, "MESSAGE"), StreamType |-> outStream,
                          Timestamp |-> entry.RealtimeTimestamp \o <<"0", "0", "0">>]

\* the fields of the journal entries the function is run on
Identifiers ==
    { <<"myapp", Hyphen, "1">>, <<"otherapp", Hyphen, "1", "0">>,
      <<"my", Hyphen, "app", Hyphen, "1">>, <<"kube", Hyphen, "proxy", Hyphen, "1", "0">>,
      <<"myapp">>, <<"myapp", Hyphen>>, <<"myapp", Hyphen, "x">>,
      <<"myapp", Hyphen, "+", "1">>, <<Hyphen, "1">>, <<"systemd">> }
Transports == {<<"stdout">>, <<"stderr">>, <<"journal">>, <<"syslog">>}
Messages == {<<"20/20">>, <<"petrov">>, <<>>}
Timestamps == {<<"2", "9", "8", "9">>, <<"1", "4", "7", "8">>}

JournalFields ==
    UNION { [keys -> UNION {Identifiers, Transports, Messages}] :
                keys \in SUBSET {"SYSLOG_IDENTIFIER", "_TRANSPORT", "MESSAGE"} }

JournalEntries ==
    { [Fields |-> f, RealtimeTimestamp |-> t] :
        f \in { g \in JournalFields :
                  /\ "SYSLOG_IDENTIFIER" \in DOMAIN g => g["SYSLOG_IDENTIFIER"] \in Identifiers
                  /\ "_TRANSPORT" \in DOMAIN g => g["_TRANSPORT"] \in Transports
                  /\ "MESSAGE" \in DOMAIN g => g["MESSAGE"] \in Messages },
        t \in Timestamps }

\* the function has no state: one call of a behaviour stands for every call
ProcessEntryCall ==
    /\ call = NoRead
    /\ \E entry \in JournalEntries :
         call' = [fn |-> "ProcessEntry", entry |-> entry, out |-> ProcessEntry(entry)]
    /\ UNCHANGED <<mountVars, isoVars, hierarchies, membership, lastJoin, execVars>>


(* execShim.Exec: four goroutines report their errors on a buffered        *)
(* channel; Exec returns the first error or nil when done is closed.  The   *)
(* goroutines share the exec.Cmd without synchronisation.  ExecSync calls   *)
(* Exec with two nopWriteCloser values as out and errOut.                   *)

ErrChCap == 4
\* the bytes the command writes to each of its outputs, at most
MaxBytes == 1
\* the calls a goroutine's stack has room for
MaxDepth == 2

Streams == {"streamStdin", "streamStdout", "streamStderr"}
OutStreams == {"streamStdout", "streamStderr"}
Goroutines == Streams \cup {"run"}

NotStarted == [pc |-> "none", err |-> <<"nil">>, sent |-> 0, pipe |-> "none", copied |-> 0, depth |-> 0]
\* the exec.Cmd and its process: the bytes the process has written to its
\* standard output and standard error, and whether Wait has closed the pipes
NoCmd == [proc |-> "none", status |-> 0, wrote |-> [s \in OutStreams |-> 0], closed |-> FALSE]

\* what ExecSync returns: the response with the bytes of the two buffers, or
\* no response and an error
Response(bytes) == [nil |-> FALSE, bytes |-> bytes, err |-> <<"nil">>]
NoResponse(err) == [nil |-> TRUE, bytes |-> [s \in OutStreams |-> 0], err |-> err]

\* a stack overflow is fatal: it ends the process with all its goroutines
Crashed == exec.sync = "fatal" \/ \E g \in Goroutines : goroutines[g].pc = "fatal"
At(g, loc) == ~Crashed /\ goroutines[g].pc = loc
Goto(g, loc) == goroutines' = [goroutines EXCEPT ![g].pc = loc]
\* the goroutine is at a statement errCh <- err
Fail(g, err) == goroutines' = [goroutines EXCEPT ![g].pc = "send", ![g].err = err]

\* ExecSync up to its call of Exec
ExecSyncCall ==
    /\ exec.pc = "idle" /\ exec.sync = "none"
    /\ exec' = [exec EXCEPT !.sync = "exec"]
    /\ UNCHANGED <<mountVars, isoVars, procVars, goroutines, errCh, done, cmd>>

\* Exec up to the select: parseContainerID fails and Exec returns, or the
\* channels are made and the four goroutines are started
ExecStart ==
    /\ exec.pc = "idle"
    /\ \/ /\ exec' = [exec EXCEPT !.pc = "returned", !.ret = <<"parseContainerID">>]
          /\ UNCHANGED <<goroutines, errCh, done, cmd>>
       \/ /\ exec' = [exec EXCEPT !.pc = "select"]
          /\ goroutines' = [g \in Goroutines |-> [NotStarted EXCEPT !.pc = "start"]]
          /\ errCh' = <<>>
          /\ done' = FALSE
          /\ cmd' = NoCmd
    /\ UNCHANGED <<mountVars, isoVars, procVars>>

\* streamStdin, streamStdout, streamStderr: cmd.StdinPipe(), StdoutPipe(),
\* StderrPipe().  The call fails when no pipe can be made.  Before Start the
\* pipe becomes the command's stream.  Once the process is started the call
\* answers "after process started", or, the read of cmd.Process racing with
\* the write in Start, makes a pipe the process does not have.
StreamPipe(g) ==
    /\ At(g, "start")
    /\ \/ Fail(g, <<g, "pipe">>)
       \/ /\ cmd.proc = "none"
          /\ goroutines' = [goroutines EXCEPT ![g].pc = "copy", ![g].pipe = "attached"]
       \/ /\ cmd.proc # "none"
          /\ \/ Fail(g, <<g, "pipe", "after process started">>)
             \/ goroutines' = [goroutines EXCEPT ![g].pc = "copy", ![g].pipe = "loose"]
    /\ UNCHANGED <<mountVars, isoVars, procVars, exec, errCh, done, cmd>>

\* io.Copy(out, stdout) has read what the process wrote and calls out.Write;
\* the Write of a nopWriteCloser calls itself
CopyChunk(g) ==
    /\ At(g, "copy")
    /\ goroutines[g].pipe = "attached"
    /\ ~cmd.closed
    /\ goroutines[g].copied < cmd.wrote[g]
    /\ IF exec.sync = "exec"
       THEN goroutines' = [goroutines EXCEPT ![g].pc = "write", ![g].depth = 1]
       ELSE goroutines' = [goroutines EXCEPT ![g].copied = @ + 1]
    /\ UNCHANGED <<mountVars, isoVars, procVars, exec, errCh, done, cmd>>

\* func (n nopWriteCloser) Write(p []byte) (int, error) { return n.Write(p) }
nopWriteCloserWrite(g) ==
    /\ At(g, "write")
    /\ IF goroutines[g].depth < MaxDepth
       THEN goroutines' = [goroutines EXCEPT ![g].depth = @ + 1]
       ELSE goroutines' = [goroutines EXCEPT ![g].pc = "fatal"]
    /\ UNCHANGED <<mountVars, isoVars, procVars, exec, errCh, done, cmd>>

\* the reader of io.Copy is at its end: in is, or the process has exited and
\* everything it wrote to the pipe was read before Wait closed the pipe
AtEOF(g) ==
    IF g = "streamStdin" THEN TRUE
    ELSE /\ goroutines[g].pipe = "attached"
         /\ cmd.proc = "exited"
         /\ ~cmd.closed
         /\ goroutines[g].copied = cmd.wrote[g]

\* io.Copy returns, with an error or, at the end of what it reads, without
StreamCopy(g) ==
    /\ At(g, "copy")
    /\ \/ Fail(g, <<g, "copy">>)
       \/ AtEOF(g) /\ Goto(g, "end")
    /\ UNCHANGED <<mountVars, isoVars, procVars, exec, errCh, done, cmd>>

\* cmd.Start()
RunStart ==
    /\ At("run", "start")
    /\ \/ Fail("run", <<"run", "start">>) /\ UNCHANGED cmd
       \/ Goto("run", "wait") /\ cmd' = [cmd EXCEPT !.proc = "running"]
    /\ UNCHANGED <<mountVars, isoVars, procVars, exec, errCh, done>>

\* the process writes a byte to its standard output or standard error
CmdWrite(s) ==
    /\ ~Crashed
    /\ cmd.proc = "running"
    /\ cmd.wrote[s] < MaxBytes
    /\ cmd' = [cmd EXCEPT !.wrote[s] = @ + 1]
    /\ UNCHANGED <<mountVars, isoVars, procVars, exec, goroutines, errCh, done>>

\* the process exits, with status 0 or not
CmdExit ==
    /\ ~Crashed
    /\ cmd.proc = "running"
    /\ \E status \in {0, 1} : cmd' = [cmd EXCEPT !.proc = "exited", !.status = status]
    /\ UNCHANGED <<mountVars, isoVars, procVars, exec, goroutines, errCh, done>>

\* cmd.Wait() returns when the process has exited, closes the pipes and
\* answers with an error unless the status is 0; then close(done)
RunWait ==
    /\ At("run", "wait")
    /\ cmd.proc = "exited"
    /\ cmd' = [cmd EXCEPT !.closed = TRUE]
    /\ IF cmd.status = 0
       THEN Goto("run", "end") /\ done' = TRUE
       ELSE Fail("run", <<"run", "wait">>) /\ UNCHANGED done
    /\ UNCHANGED <<mountVars, isoVars, procVars, exec, errCh>>

\* variant: the goroutine goes on after the send as if nothing had failed
SendAndGoOn(g) ==
    /\ At(g, "send")
    /\ Len(errCh) < ErrChCap
    /\ errCh' = Append(errCh, goroutines[g].err)
    /\ goroutines' = [goroutines EXCEPT ![g].pc = IF goroutines[g].err[2] \in {"pipe", "start"}
                                                   THEN (IF g = "run" THEN "wait" ELSE "copy")
                                                   ELSE "end",
                                         ![g].sent = @ + 1]
    /\ UNCHANGED <<mountVars, isoVars, procVars, exec, done, cmd>>

\* errCh <- err, then the goroutine returns: the send goes through when the
\* channel has room and waits otherwise
Send(g) ==
    /\ At(g, "send")
    /\ Len(errCh) < ErrChCap
    /\ errCh' = Append(errCh, goroutines[g].err)
    /\ goroutines' = [goroutines EXCEPT ![g].pc = "end", ![g].sent = @ + 1]
    /\ UNCHANGED <<mountVars, isoVars, procVars, exec, done, cmd>>

\* select: case err := <-errCh: return err
ExecSelectErr ==
    /\ ~Crashed
    /\ exec.pc = "select"
    /\ errCh # <<>>
    /\ exec' = [exec EXCEPT !.pc = "returned", !.ret = Head(errCh)]
    /\ errCh' = Tail(errCh)
    /\ UNCHANGED <<mountVars, isoVars, procVars, goroutines, done, cmd>>

\* select: case <-done: return nil
ExecSelectDone ==
    /\ ~Crashed
    /\ exec.pc = "select"
    /\ done
    /\ exec' = [exec EXCEPT !.pc = "returned", !.ret = <<"nil">>]
    /\ UNCHANGED <<mountVars, isoVars, procVars, goroutines, errCh, done, cmd>>

\* ExecSync after Exec: the error of Exec is returned, or the response is
\* built, Stderr: stderr.Bytes() first
ExecSyncAfterExec ==
    /\ ~Crashed
    /\ exec.sync = "exec" /\ exec.pc = "returned"
    /\ IF exec.ret # <<"nil">>
       THEN exec' = [exec EXCEPT !.sync = "returned", !.response = NoResponse(exec.ret)]
       ELSE exec' = [exec EXCEPT !.sync = "bytes", !.depth = 1]
    /\ UNCHANGED <<mountVars, isoVars, procVars, goroutines, errCh, done, cmd>>

\* func (n nopWriteCloser) Bytes() []byte { return n.Bytes() }
nopWriteCloserBytes ==
    /\ ~Crashed
    /\ exec.sync = "bytes"
    /\ IF exec.depth < MaxDepth
       THEN exec' = [exec EXCEPT !.depth = @ + 1]
       ELSE exec' = [exec EXCEPT !.sync = "fatal"]
    /\ UNCHANGED <<mountVars, isoVars, procVars, goroutines, errCh, done, cmd>>


(* addInternalLoggingApp: the helper app that turns the pod's journal into *)
(* CRI logs is added to the pod and started.  The source holds the          *)
(* function twice; "prefixed" is the one whose loggingAppName is            *)
(* internalPrefix + "journal2cri", "literal" the one whose loggingAppName   *)
(* is "journal2cri-rktletinternal".  A text is a sequence of its pieces.    *)

LoggingVersions == {"prefixed", "literal"}

loggingHelperImage == <<"quay.io/coreos/rktlet-journal2cri:0.0.1">>
loggingAppName(v) ==
    IF v = "prefixed" THEN <<"internalPrefix", "journal2cri">> ELSE <<"journal2cri-rktletinternal">>

\* strings.Replace(rktUUID, "-", "", -1)
NoHyphens(text) == SelectSeq(text, LAMBDA t : t # "-")

\* the arguments of the first RunCommand; fmt.Sprintf without an operand
\* leaves %!s(MISSING) in the text and the directory is an argument of its own
AppAddArgs(v, rktUUID, criLogDir, imageHash) ==
    IF v = "prefixed"
    THEN << <<"app">>, <<"add">>, rktUUID, imageHash,
            <<"--name=">> \o loggingAppName(v),
            <<"--mnt-volume=name=journal,kind=host,source=", "/var/log/journal/">> \o NoHyphens(rktUUID)
                \o <<"/", ",target=/journal,readOnly=true">>,
            <<"--mnt-volume=name=cri,kind=host,source=">> \o criLogDir \o <<",target=/cri,readOnly=false">>,
            <<"--mnt-volume=name=cri,kind=host,source=">> \o criLogDir \o <<",target=/cri,readOnly=false">> >>
    ELSE << <<"app">>, <<"add">>, rktUUID, imageHash,
            <<"--name=", "journal2cri-">> \o loggingAppName(v),
            <<"--mnt-volume=name=journal,kind=host,source=", "%!s(MISSING)", ",target=/journal,readOnly=true">>,
            <<"var/log/journal/">> \o NoHyphens(rktUUID),
            <<"--mnt-volume=name=cri,kind=host,source=", "%!s(MISSING)", ",target=/cri,readOnly=false">>,
            criLogDir >>

\* the arguments of the second RunCommand
AppStartArgs(v, rktUUID) == << <<"app">>, <<"start">>, rktUUID, <<"--app=">> \o loggingAppName(v) >>

InLogging(loc) == call.fn = "addInternalLoggingApp" /\ call.pc = loc
LoggingReturns(err) == call' = [call EXCEPT !.pc = "done", !.ret = err]
RunCommand(argv, res) == Append(call.cmds, [args |-> argv, res |-> res])

addInternalLoggingAppCall ==
    /\ call = NoRead
    /\ \E v \in LoggingVersions, rktUUID \in {<<"4f2a", "-", "9c1d">>, <<"9c1d", "-", "07be">>, <<"07be">>},
          criLogDir \in {<<>>, <<"/var/log/pods/a">>, <<"/var/log/pods/b">>} :
         call' = [fn |-> "addInternalLoggingApp", version |-> v, rktUUID |-> rktUUID,
                  criLogDir |-> criLogDir, pc |-> "dir", imageHash |-> <<>>,
                  cmds |-> <<>>, ret |-> "none"]
    /\ UNCHANGED <<mountVars, isoVars, hierarchies, membership, lastJoin, execVars>>

\* if criLogDir == ""
LoggingCheckDir ==
    /\ InLogging("dir")
    /\ IF call.criLogDir = <<>> THEN LoggingReturns("no cri log directory provided")
       ELSE call' = [call EXCEPT !.pc = "hash"]
    /\ UNCHANGED <<mountVars, isoVars, hierarchies, membership, lastJoin, execVars>>

\* r.getImageHash(loggingHelperImage): the hash of the image, or an error
LoggingGetImageHash ==
    /\ InLogging("hash")
    /\ \/ \E h \in {<<"sha512-1f3a">>, <<"sha512-77c0">>} :
            call' = [call EXCEPT !.pc = "add", !.imageHash = h]
       \/ LoggingReturns("getImageHash")
    /\ UNCHANGED <<mountVars, isoVars, hierarchies, membership, lastJoin, execVars>>

\* variant: the result of the first command is not looked at
LoggingAppAddIgnoresError ==
    /\ InLogging("add")
    /\ \E res \in {"ok", "err"} :
         call' = [call EXCEPT !.pc = "start",
                              !.cmds = RunCommand(AppAddArgs(call.version, call.rktUUID,
                                                             call.criLogDir, call.imageHash), res)]
    /\ UNCHANGED <<mountVars, isoVars, hierarchies, membership, lastJoin, execVars>>

\* r.RunCommand("app", "add", ...); the MkdirAll of the log directory that
\* precedes it in one of the two functions runs no rkt command and its
\* result is dropped
LoggingAppAdd ==
    /\ InLogging("add")
    /\ LET argv == AppAddArgs(call.version, call.rktUUID, call.criLogDir, call.imageHash)
       IN \/ call' = [call EXCEPT !.pc = "start", !.cmds = RunCommand(argv, "ok")]
          \/ call' = [call EXCEPT !.pc = "done", !.ret = "app add", !.cmds = RunCommand(argv, "err")]
    /\ UNCHANGED <<mountVars, isoVars, hierarchies, membership, lastJoin, execVars>>

\* r.RunCommand("app", "start", rktUUID, "--app=" + loggingAppName)
LoggingAppStart ==
    /\ InLogging("start")
    /\ LET argv == AppStartArgs(call.version, call.rktUUID)
       IN \/ call' = [call EXCEPT !.pc = "done", !.ret = "nil", !.cmds = RunCommand(argv, "ok")]
          \/ call' = [call EXCEPT !.pc = "done", !.ret = "app start", !.cmds = RunCommand(argv, "err")]
    /\ UNCHANGED <<mountVars, isoVars, hierarchies, membership, lastJoin, execVars>>

-----------------------------------------------------------------------------

\* Exec has not been called
InitNoExec ==
    /\ exec = [pc |-> "idle", ret |-> <<"none">>, sync |-> "none", depth |-> 0, response |-> NoResponse(<<"none">>)]
    /\ goroutines = [g \in Goroutines |-> NotStarted]
    /\ errCh = <<>>
    /\ done = FALSE
    /\ cmd = NoCmd

\* no process is looked at
InitNoProc ==
    /\ hierarchies = <<>>
    /\ membership = <<>>
    /\ lastJoin = NoJoin
    /\ call = NoRead

InitMounts ==
    /\ enabledCgroups \in HierarchyMaps
    /\ missing \in {{}, {"cpu.cfs_quota_us"}}
    /\ mounts = {}
    /\ dirs = {}
    /\ symlinks = {}
    /\ fn = "none"
    /\ pc = "done"
    /\ args = NoArgs
    /\ controllers = <<>>
    /\ ci = 1 /\ si = 1 /\ fi = 1
    /\ links = {}
    /\ log = <<>>
    /\ ret = "none"
    /\ ncalls = 0
    /\ cpuset \in (IF HasCpuset(enabledCgroups)
                   THEN CpusetInits
                   ELSE {[k \in {"cpuset.mems", "cpuset.cpus"} |->
                            [child |-> c, parent |-> <<"0-3", "\n">>]] :
                         c \in IF \E h \in DOMAIN enabledCgroups :
                                     \E i \in 1..Len(enabledCgroups[h]) :
                                        enabledCgroups[h][i] = "cpuset"
                                THEN {<<"\n">>, <<"0", "\n">>}
                                ELSE {<<"\n">>}})
    /\ statfs \in {StatfsType(t) : t \in V1FsTypes}
    /\ v2Controllers = NoControllersFile
    /\ isoIn = NoCall
    /\ isoOut = NoResult
    /\ InitNoProc
    /\ InitNoExec

Init == InitMounts

\* the kernels MaybeAddIsolator is run on; no container is being built
InitIsolator ==
    /\ enabledCgroups = (0 :> <<"cpu">>) @@ (1 :> <<"memory">>)
    /\ missing \in {{}, {"cpu.cfs_quota_us"}, {"memory.limit_in_bytes"}, {"devices.deny"},
                    {"devices.allow", "devices.deny"}}
    /\ mounts = {}
    /\ dirs = {}
    /\ symlinks = {}
    /\ fn = "none"
    /\ pc = "done"
    /\ args = NoArgs
    /\ controllers = <<>>
    /\ ci = 1 /\ si = 1 /\ fi = 1
    /\ links = {}
    /\ log = <<>>
    /\ ret = "none"
    /\ ncalls = 0
    /\ cpuset = [k \in {"cpuset.mems", "cpuset.cpus"} |->
                   [child |-> <<"\n">>, parent |-> <<"0-3", "\n">>]]
    /\ statfs \in {StatfsFailed} \cup {StatfsType(t) : t \in V1FsTypes \cup {Cgroup2fsMagicNumber}}
    /\ v2Controllers \in {NoControllersFile, <<"cpu", " ", "io", " ", "memory">>,
                          <<"cpuset", " ", "memory", " ", "pids">>,
                          <<"cpu", " ", "devices">>}
    /\ isoIn = NoCall
    /\ isoOut = NoResult
    /\ InitNoProc
    /\ InitNoExec

NextIsolator == MaybeAddIsolatorCall

\* a process of a host, in the root cgroup or in a user's cgroup of every
\* hierarchy
InitProc ==
    /\ enabledCgroups = (0 :> <<"cpu">>) @@ (1 :> <<"memory">>)
    /\ missing = {}
    /\ mounts = {}
    /\ dirs = {}
    /\ symlinks = {}
    /\ fn = "none"
    /\ pc = "done"
    /\ args = NoArgs
    /\ controllers = <<>>
    /\ ci = 1 /\ si = 1 /\ fi = 1
    /\ links = {}
    /\ log = <<>>
    /\ ret = "none"
    /\ ncalls = 0
    /\ cpuset = [k \in {"cpuset.mems", "cpuset.cpus"} |->
                   [child |-> <<"\n">>, parent |-> <<"0-3", "\n">>]]
    /\ statfs \in {StatfsType(t) : t \in V1FsTypes}
    /\ v2Controllers = NoControllersFile
    /\ isoIn = NoCall
    /\ isoOut = NoResult
    /\ hierarchies \in Hosts
    /\ \E start \in {<<Sep>>, <<Sep, "user">>} :
         membership = [h \in 1..Len(hierarchies) |-> start]
    /\ lastJoin = NoJoin
    /\ call = NoRead
    /\ InitNoExec

NextProc == JoinV1SubcgroupCall \/ GetOwnV1CgroupPathCall

Next ==
    \/ CallCreateV1Cgroups
    \/ CreateMkdirSys
    \/ CreateMountSysfs
    \/ CreateMkdirTmpfs
    \/ CreateMountTmpfs
    \/ CreateCtrlMkdir
    \/ CreateCtrlMount
    \/ CreateSymlink
    \/ CreateMkdirSystemd
    \/ CreateRemountRO
    \/ CallRemountV1CgroupsRO
    \/ RemountFixCpuset
    \/ RemountMkdirApp
    \/ RemountKnob
    \/ RemountCtrlRO
    \/ RemountSysRO
    \/ CallRemountCgroupKnobsRW
    \/ KnobsMkdirApp
    \/ KnobsMountBind
    \/ KnobsRemountRW
    \/ KnobsReturn

Spec == Init /\ [][Next]_vars

SpecIsolator == InitIsolator /\ [][NextIsolator]_vars
SpecProc == InitProc /\ [][NextProc]_vars

\* nothing is mounted and no process is looked at: the functions of one call
InitCalls == InitIsolator /\ missing = {} /\ statfs = StatfsFailed /\ v2Controllers = NoControllersFile

NextTable == parseV1CgroupsCall

SpecTable == InitCalls /\ [][NextTable]_vars

NextJournal == ProcessEntryCall

SpecJournal == InitCalls /\ [][NextJournal]_vars

NextLogging ==
    \/ addInternalLoggingAppCall
    \/ LoggingCheckDir
    \/ LoggingGetImageHash
    \/ LoggingAppAdd
    \/ LoggingAppStart

SpecLogging == InitCalls /\ [][NextLogging]_vars

NextExec ==
    \/ ExecSyncCall
    \/ ExecStart
    \/ \E g \in Streams : StreamPipe(g)
    \/ \E g \in OutStreams : CopyChunk(g)
    \/ \E g \in OutStreams : nopWriteCloserWrite(g)
    \/ \E g \in Streams : StreamCopy(g)
    \/ RunStart
    \/ \E s \in OutStreams : CmdWrite(s)
    \/ CmdExit
    \/ RunWait
    \/ ExecSyncAfterExec
    \/ nopWriteCloserBytes
    \/ \E g \in Goroutines : Send(g)
    \/ ExecSelectErr
    \/ ExecSelectDone

SpecExec == InitCalls /\ [][NextExec]_vars

-----------------------------------------------------------------------------
(* Properties of the Hierarchy Builder and the RW-window carvers *)

InCreate == fn = "CreateV1Cgroups"
InRemountRO == fn = "RemountV1CgroupsRO"
InKnobsRW == fn = "RemountCgroupKnobsRW"
Returned(r) == pc = "done" /\ ret = r

LogIdx == 1..Len(log)
Failed(e) == e.res # "ok"
MountOps == {"mount sysfs", "mount tmpfs", "mount cgroup"}

\* the phase of the build a kernel operation belongs to
Phase(e) ==
    CASE e.op = "mkdir" /\ e.path = SysPath -> 0
      [] e.op = "mount sysfs" -> 1
      [] e.op = "mkdir" /\ e.path = CgroupTmpfs -> 2
      [] e.op = "mount tmpfs" -> 3
      [] e.op = "mount cgroup" -> 4
      [] e.op = "mkdir" /\ e.path = SystemdControllerPath -> 5
      [] e.op = "mkdir" -> 4
      [] e.op = "symlink" -> 5
      [] e.op = "remount ro" -> 6
      [] OTHER -> 7

\* the directory names of the hierarchy map, computed from the map alone
DirNames == {JoinComma(enabledCgroups[h]) : h \in DOMAIN enabledCgroups}

\* C1: in every run of CreateV1Cgroups the kernel operations are issued one
\* after the other in the order sysfs mount, tmpfs mount, the per-controller
\* cgroup mounts, the symlinks and the systemd placeholder directory, and the
\* read-only remount of the cgroup root last; no cgroup mount precedes the
\* tmpfs mount or follows the read-only remount, and a successful run has
\* issued all of them.
C1_BuilderOrder ==
    InCreate =>
        /\ \A i, j \in LogIdx : i < j => Phase(log[i]) <= Phase(log[j])
        /\ \A i, j \in LogIdx :
             i < j /\ log[i].op = log[j].op /\ log[i].op \in {"mount sysfs", "mount tmpfs", "remount ro"}
                => FALSE
        /\ \A i \in LogIdx : log[i].op = "remount ro" => i = Len(log) /\ log[i].path = CgroupTmpfs
        /\ \A i \in LogIdx : log[i].op = "mount cgroup" =>
             /\ \E j \in 1..(i - 1) : log[j].op = "mount tmpfs" /\ log[j].res = "ok"
             /\ \A j \in 1..(i - 1) : log[j].op # "remount ro"
        /\ \A i \in LogIdx : log[i].op = "mount tmpfs" =>
             \E j \in 1..(i - 1) : log[j].op = "mount sysfs"
        /\ Returned("ok") =>
             /\ log[Len(log)].op = "remount ro"
             /\ \A d \in DirNames :
                  \E i \in LogIdx : log[i].op = "mount cgroup" /\ log[i].path = CgroupTmpfs \o <<Sep>> \o d
             /\ \E i \in LogIdx : log[i].op = "mkdir" /\ log[i].path = SystemdControllerPath

C1_Witness ==
    /\ InCreate /\ Returned("ok")
    /\ \E i \in LogIdx : log[i].op = "symlink"
    /\ Cardinality({i \in LogIdx : log[i].op = "mount cgroup"}) = 2

\* a file name a write attempt under directory d would touch
Probe(d) == d \o <<Sep, "probe">>

ControllerPaths == {CgroupTmpfs \o <<Sep>> \o d : d \in DirNames}
WatchedDirs == {CgroupTmpfs} \cup ControllerPaths

AllowList == KnobNames \cup {"cgroup.procs"}

\* the allow-listed knob files inside the directory of service S
OwnKnobFiles(subcgroup, S) ==
    {cp \o <<Sep>> \o subcgroup \o <<Sep, "system.slice", Sep, S, Sep, f>> :
        cp \in ControllerPaths, f \in AllowList}

\* the mounts a step makes read-write
OpenedBy == {m.mp : m \in {n \in mounts' \ mounts : n.flag = "rw"}}

KnobsOnlyOwnFiles ==
    fn' = "RemountCgroupKnobsRW" =>
        OpenedBy \subseteq OwnKnobFiles(args'.subcgroup, args'.serviceNames[1])

\* C2 as stated: over any sequence of the three calls a directory that is
\* read-only never becomes writable again, and RemountCgroupKnobsRW for
\* service S makes read-write only allow-listed knob files of S's directory.
C2_Original ==
    [][/\ \A d \in WatchedDirs : ~Writable(d) => ~Writable(d)'
       /\ KnobsOnlyOwnFiles]_vars

\* C2 amended: no step of RemountV1CgroupsRO or RemountCgroupKnobsRW makes a
\* read-only cgroup root or controller directory writable again (a repeated
\* CreateV1Cgroups does: it mounts a fresh tmpfs and fresh cgroup mounts over
\* the tree), and RemountCgroupKnobsRW for service S makes read-write only
\* allow-listed knob files inside S's own directory.
C2_Monotonic ==
    [][/\ \A d \in WatchedDirs :
            ~Writable(d) /\ fn' # "CreateV1Cgroups" => ~Writable(d)'
       /\ KnobsOnlyOwnFiles]_vars

C2_Witness ==
    /\ InKnobsRW /\ Returned("ok")
    /\ ~Writable(CgroupTmpfs)
    /\ \A cp \in ControllerPaths : ~Writable(cp)
    /\ \E m \in mounts :
         m.flag = "rw" /\ m.mp \in OwnKnobFiles(args.subcgroup, args.serviceNames[1])
    /\ \E i \in LogIdx : log[i].op = "enter mount -o remount,bind,rw" /\ log[i].res = "ok"

NoJointGroups == \A h \in DOMAIN enabledCgroups : Len(enabledCgroups[h]) = 1

\* C3 as stated: after a successful CreateV1Cgroups on a map without joint
\* groups every write under the cgroup root and under each controller mount
\* point fails.
C3_Original ==
    InCreate /\ Returned("ok") /\ NoJointGroups =>
        /\ ~Writable(Probe(CgroupTmpfs))
        /\ \A cp \in ControllerPaths : ~Writable(Probe(cp))

\* C3 amended: after a successful CreateV1Cgroups on a map without joint
\* groups the cgroup root (the tmpfs) is read-only, so a write in the root
\* directory or in the systemd placeholder fails, while every controller
\* mount point is still read-write (RemountV1CgroupsRO remounts them).
C3_RootReadOnly ==
    InCreate /\ Returned("ok") /\ NoJointGroups =>
        /\ ~Writable(Probe(CgroupTmpfs))
        /\ ~Writable(Probe(SystemdControllerPath))
        /\ \A cp \in ControllerPaths : cp \in MountPoints /\ Writable(Probe(cp))

C3_Witness ==
    /\ InCreate /\ Returned("ok") /\ NoJointGroups
    /\ Cardinality(ControllerPaths) = 2

\* C4 as stated: in RemountV1CgroupsRO no controller directory is remounted
\* read-only before the knob bind mounts of every controller are done.
C4_Original ==
    InRemountRO =>
        \A i, j \in LogIdx : i < j /\ log[i].op = "remount ro" => log[j].op # "bind"

\* every knob file of the services listed for controller directory cp has
\* been handled (bind-mounted, or found missing) before position i of the log
KnobsHandledBefore(cp, i) ==
    \A d \in DirNames : cp = CgroupTmpfs \o <<Sep>> \o d =>
        \A s \in 1..Len(args.serviceNames) :
            \A k \in 1..Len(getV1ControllerRWFiles(d)) :
                \E j \in 1..(i - 1) :
                    /\ log[j].path = cp \o <<Sep>> \o args.subcgroup
                                        \o <<Sep, "system.slice", Sep, args.serviceNames[s],
                                             Sep, getV1ControllerRWFiles(d)[k]>>
                    /\ \/ log[j].op = "bind" /\ log[j].res = "ok"
                       \/ log[j].op = "stat"

\* C4 amended: a controller directory is remounted read-only only after the
\* knob bind mounts of that controller for every listed service (controllers
\* later in the loop are still to be handled), nothing below it is touched
\* afterwards, and the read-only remount of sys is the last operation, made
\* after every controller directory was remounted.
C4_CarverOrder ==
    InRemountRO =>
        /\ \A i \in LogIdx : log[i].op = "remount ro" /\ log[i].path # SysPath =>
             /\ KnobsHandledBefore(log[i].path, i)
             /\ \A j \in LogIdx : j > i => ~IsUnder(log[i].path, log[j].path)
        /\ \A i \in LogIdx : log[i].op = "remount ro" /\ log[i].path = SysPath =>
             /\ i = Len(log)
             /\ \A cp \in ControllerPaths :
                  \E j \in 1..(i - 1) :
                      log[j].op = "remount ro" /\ log[j].path = cp /\ log[j].res = "ok"
        /\ Returned("ok") =>
             /\ log[Len(log)].op = "remount ro"
             /\ log[Len(log)].path = SysPath
             /\ log[Len(log)].res = "ok"

C4_Witness ==
    /\ InRemountRO /\ Returned("ok")
    /\ \E i, j \in LogIdx :
         /\ log[i].op = "bind" /\ log[j].op = "bind"
         /\ \E cp \in ControllerPaths : IsUnder(cp, log[i].path) /\ ~IsUnder(cp, log[j].path)

Tolerated(e) == e.op = "mount sysfs" /\ e.res = "EBUSY"

\* the number of kernel operations of a complete build
FullBuild == 6 + 2 * Cardinality(DirNames)
             + Cardinality({c \in UNION {{enabledCgroups[h][i] : i \in 1..Len(enabledCgroups[h])} :
                                          h \in {g \in DOMAIN enabledCgroups : Len(enabledCgroups[g]) > 1}} : TRUE})

\* C10 as stated: CreateV1Cgroups succeeds iff every step committed, and the
\* first failing step aborts the operation.
C10_Original ==
    InCreate =>
        /\ \A i \in LogIdx : Failed(log[i]) => i = Len(log) /\ Returned("err")
        /\ pc = "done" => (ret = "ok" <=> \A i \in LogIdx : ~Failed(log[i]))

\* C10 amended: apart from an EBUSY of the initial sysfs mount, which is
\* ignored, the first failing step aborts CreateV1Cgroups with an error: no
\* later step is attempted, no step is repeated, the mounts made so far stay
\* mounted, and success is returned iff every step was issued and none
\* failed other than in that tolerated way.
C10_AbortOnFailure ==
    InCreate =>
        /\ \A i \in LogIdx :
             Failed(log[i]) /\ ~Tolerated(log[i]) => i = Len(log) /\ Returned("err")
        /\ pc = "done" =>
             (ret = "ok" <=> /\ \A i \in LogIdx : ~Failed(log[i]) \/ Tolerated(log[i])
                             /\ Len(log) = FullBuild)
        /\ \A i, j \in LogIdx :
             i < j => ~(log[i].op = log[j].op /\ log[i].path = log[j].path)
        /\ \A i \in LogIdx :
             log[i].op \in MountOps /\ log[i].res = "ok" => log[i].path \in MountPoints

C10_Witness ==
    /\ InCreate /\ Returned("err")
    /\ \E i \in LogIdx : Tolerated(log[i])
    /\ \E i \in LogIdx : log[i].op = "mount cgroup" /\ log[i].res = "ok"
    /\ log[Len(log)].op = "mount cgroup" /\ Failed(log[Len(log)])

-----------------------------------------------------------------------------
(* Properties of the Isolator Translator *)

Called == isoIn.isolator # "none"
InMilli == isoIn.limit.milli

\* the kernel exposes the controller: it is in the v2 list of enabled
\* controllers, or (v1) each of its control files is there
RequiredFiles(isolator) ==
    CASE isolator = "cpu" -> {"cpu.cfs_quota_us"}
      [] isolator = "memory" -> {"memory.limit_in_bytes"}
      [] isolator = "devices" -> {"devices.allow", "devices.deny"}
      [] OTHER -> {}

IsV2 == ~statfs.err /\ statfs.type = Cgroup2fsMagicNumber
IsV1 == ~statfs.err /\ statfs.type # Cgroup2fsMagicNumber
V2Enabled == {v2Controllers[i] : i \in 1..Len(v2Controllers)} \ {" "}

KernelExposes(isolator) ==
    \/ IsV2 /\ v2Controllers # NoControllersFile /\ isolator \in V2Enabled
    \/ IsV1 /\ RequiredFiles(isolator) # {} /\ RequiredFiles(isolator) \cap missing = {}

KernelHides(isolator) ==
    \/ IsV2 /\ v2Controllers # NoControllersFile /\ isolator \notin V2Enabled
    \/ IsV1 /\ (RequiredFiles(isolator) = {} \/ RequiredFiles(isolator) \cap missing # {})

\* exactly one option was appended to the options given, which are unchanged
AppendedOne ==
    /\ ~isoOut.optsNil
    /\ Len(isoOut.opts) = Len(isoIn.opts) + 1
    /\ SubSeq(isoOut.opts, 1, Len(isoIn.opts)) = isoIn.opts

LastOpt == isoOut.opts[Len(isoOut.opts)]

\* the number a decimal rendering denotes
DigitOf(c) == CHOOSE d \in 0..9 : DigitChars[d + 1] = c
ParseDec(chars) ==
    IF chars # <<>> /\ Head(chars) = "-"
    THEN Num(TRUE, [i \in 1..(Len(chars) - 1) |-> DigitOf(chars[i + 1])])
    ELSE Num(FALSE, [i \in 1..Len(chars) |-> DigitOf(chars[i])])

Negate(x) == Num(~x.neg, x.mag)
Times1000(x) == Num(x.neg, x.mag \o <<0, 0, 0>>)
Pred(x) ==
    IF x.mag = <<>> THEN Num(TRUE, <<1>>)
    ELSE IF x.neg THEN Num(TRUE, IncMag(x.mag))
    ELSE Num(FALSE, DecMag(x.mag))

\* floor(x / 10)
FloorDiv10(x) ==
    IF x.neg /\ HasRemainder(x.mag, 1) THEN Num(TRUE, IncMag(DropLast(x.mag, 1)))
    ELSE Num(x.neg, DropLast(x.mag, 1))

Supported(isolator) == Called /\ isoIn.isolator = isolator /\ ~isoIn.limit.nil /\ KernelExposes(isolator)

QuotaIs(n) ==
    /\ isoOut.err = "nil" /\ ~isoOut.panicked
    /\ AppendedOne
    /\ LastOpt.section = "Service" /\ LastOpt.name = "CPUQuota"
    /\ LastOpt.value[Len(LastOpt.value)] = "%"
    /\ ParseDec(DropLast(LastOpt.value, 1)) = n
    /\ Itoa(n) \o <<"%">> = LastOpt.value

Rejected == isoOut.err # "nil" /\ isoOut.optsNil /\ isoOut.opts = <<>> /\ ~isoOut.panicked

\* C6 as stated: every CPU quantity of more than MaxMilliValue milli-units is
\* rejected with an error and no option.
C6_Original ==
    Supported("cpu") /\ Greater(InMilli, MaxMilliValue) => Rejected

\* C6 amended: every CPU quantity whose value in whole units, rounded up,
\* exceeds MaxMilliValue (more than 1000 * MaxMilliValue milli-units: its
\* count of milli-units does not fit an int64) is rejected with a validation
\* error and no option set is returned.
C6_CpuTooLarge ==
    Supported("cpu") /\ Greater(InMilli, Times1000(MaxMilliValue)) =>
        Rejected /\ isoOut.err = "cpu limit exceeds the maximum millivalue"

C6_Witness ==
    /\ Supported("cpu") /\ Greater(InMilli, Times1000(MaxMilliValue))
    /\ Len(isoIn.opts) = 2 /\ Rejected

MemoryLimitAppended ==
    /\ isoOut.err = "nil" /\ ~isoOut.panicked
    /\ AppendedOne
    /\ LastOpt.section = "Service" /\ LastOpt.name = "MemoryLimit"
    /\ Itoa(ParseDec(LastOpt.value)) = LastOpt.value

Abs(x) == Num(FALSE, x.mag)
Bytes == ParseDec(LastOpt.value)

\* C7 as stated: for every memory quantity the appended MemoryLimit renders
\* exactly the quantity, nothing lost.
C7_Original ==
    Supported("memory") => MemoryLimitAppended /\ Times1000(Bytes) = InMilli

\* C7 amended: for every memory quantity, on a kernel that supports memory,
\* MaybeAddIsolator returns no error and appends exactly one option,
\* MemoryLimit, the options given unchanged; its value is the decimal
\* rendering of the byte count of the quantity when that is a whole number
\* of bytes (134217728 gives "134217728"), and of the next whole number of
\* bytes, away from zero, when the quantity has a fraction of a byte.
C7_MemoryLimit ==
    Supported("memory") =>
        /\ MemoryLimitAppended
        /\ ~HasRemainder(InMilli.mag, 3) => Times1000(Bytes) = InMilli
        /\ HasRemainder(InMilli.mag, 3) =>
             /\ Bytes.neg = InMilli.neg
             /\ Less(Abs(InMilli), Times1000(Abs(Bytes)))
             /\ Less(Times1000(Pred(Abs(Bytes))), Abs(InMilli))
        /\ InMilli = Num(FALSE, <<1, 3, 4, 2, 1, 7, 7, 2, 8, 0, 0, 0>>) =>
             LastOpt.value = <<"1", "3", "4", "2", "1", "7", "7", "2", "8">>

C7_Witness ==
    /\ Supported("memory")
    /\ InMilli = Num(FALSE, <<1, 3, 4, 2, 1, 7, 7, 2, 8, 5, 0, 0>>)
    /\ Len(isoIn.opts) = 2 /\ Len(isoOut.opts) = 3
    /\ LastOpt.value = <<"1", "3", "4", "2", "1", "7", "7", "2", "9">>

\* C8: an isolator with a quantity, for a controller the kernel does not
\* expose, yields the options given, nothing appended, and no error.
C8_UnsupportedSkipped ==
    Called /\ ~isoIn.limit.nil /\ KernelHides(isoIn.isolator) =>
        /\ isoOut.err = "nil" /\ ~isoOut.panicked
        /\ ~isoOut.optsNil /\ isoOut.opts = isoIn.opts

C8_Witness ==
    /\ Called /\ ~isoIn.limit.nil /\ isoIn.isolator = "cpu"
    /\ IsV1 /\ "cpu.cfs_quota_us" \in missing
    /\ Len(isoIn.opts) = 2
    /\ isoOut.err = "nil" /\ isoOut.opts = isoIn.opts

\* C9: without a quantity MaybeAddIsolator returns the options given and no
\* error for every isolator kind, and reads no kernel state (also where the
\* detection of the cgroup version would fail).
C9_NilLimitNoOp ==
    Called /\ isoIn.limit.nil =>
        /\ isoOut.err = "nil" /\ ~isoOut.panicked
        /\ ~isoOut.optsNil /\ isoOut.opts = isoIn.opts
        /\ isoOut.probes = <<>>

C9_Witness ==
    /\ Called /\ isoIn.limit.nil /\ statfs.err
    /\ Len(isoIn.opts) = 2
    /\ isoOut.err = "nil" /\ isoOut.opts = isoIn.opts /\ isoOut.probes = <<>>

-----------------------------------------------------------------------------
(* Further properties of the Hierarchy Builder *)

IsLast(i) == i = Len(log) /\ Returned("err")

\* C11: in CreateV1Cgroups an EBUSY ("already mounted") of the initial sysfs
\* mount on sys is not an error: the build goes on with the directory and the
\* mount of the tmpfs; every other failure of the sysfs mount, and an EBUSY
\* of the tmpfs mount, of a cgroup mount or of the read-only remount, ends
\* the build with the error returned.
C11_EbusyOnlyOnSysfs ==
    InCreate =>
        \A i \in LogIdx :
            /\ Tolerated(log[i]) =>
                 /\ ~IsLast(i)
                 /\ i = Len(log) => pc = "mkdir_tmpfs"
                 /\ i < Len(log) => log[i + 1] \in
                       {Op("mkdir", CgroupTmpfs, r) : r \in {"ok", "err"}}
                 /\ i + 1 < Len(log) => log[i + 2].op = "mount tmpfs"
            /\ log[i].op = "mount sysfs" /\ log[i].res = "err" => IsLast(i)
            /\ log[i].op \in {"mount tmpfs", "mount cgroup", "remount ro"} /\ Failed(log[i])
                 => IsLast(i)

C11_Witness ==
    /\ InCreate /\ Returned("err")
    /\ \E i \in LogIdx : Tolerated(log[i])
    /\ log[Len(log)].op = "mount tmpfs" /\ log[Len(log)].res = "EBUSY"

\* d is the names of cs in their order with a comma between neighbours
IsCommaJoin(d, cs) ==
    /\ Len(d) = 2 * Len(cs) - 1
    /\ \A i \in 1..Len(d) : d[i] = IF i % 2 = 1 THEN cs[(i + 1) \div 2] ELSE ","

Members(cs) == {cs[i] : i \in 1..Len(cs)}
CgroupMounts == {i \in LogIdx : log[i].op = "mount cgroup" /\ log[i].res = "ok"}
LinkName(l) == l.ln[Len(l.ln)]

\* C12: after a successful CreateV1Cgroups there is exactly one cgroup mount
\* per hierarchy of the map, mounted on the directory named by the comma-join
\* of the hierarchy's controllers in their order, with that same name as the
\* mount's selector; every member of a hierarchy of more than one controller
\* has a symlink from its own name to the joint directory name, and there is
\* no other symlink (none for a hierarchy of a single controller).
C12_JointHierarchies ==
    InCreate /\ Returned("ok") =>
        /\ Cardinality(CgroupMounts) = Cardinality(DOMAIN enabledCgroups)
        /\ \A h \in DOMAIN enabledCgroups :
             \E i \in CgroupMounts :
                /\ IsCommaJoin(log[i].data, enabledCgroups[h])
                /\ log[i].path = CgroupTmpfs \o <<Sep>> \o log[i].data
                /\ log[i].path \in MountPoints
                /\ \A j \in CgroupMounts : log[j].path = log[i].path => j = i
        /\ {m.mp : m \in {n \in mounts : IsUnder(CgroupTmpfs, n.mp)}}
             = {log[i].path : i \in CgroupMounts}
        /\ \A h \in DOMAIN enabledCgroups : \A c \in Members(enabledCgroups[h]) :
             IF Len(enabledCgroups[h]) > 1
             THEN \E l \in symlinks :
                    /\ l.ln = CgroupTmpfs \o <<Sep, c>>
                    /\ IsCommaJoin(l.tgt, enabledCgroups[h])
                    /\ \A k \in symlinks : k.ln = l.ln => k = l
             ELSE \A l \in symlinks : l.ln # CgroupTmpfs \o <<Sep, c>>
        /\ \A l \in symlinks :
             \E h \in DOMAIN enabledCgroups :
                Len(enabledCgroups[h]) > 1 /\ LinkName(l) \in Members(enabledCgroups[h])

C12_Witness ==
    /\ InCreate /\ Returned("ok")
    /\ ncalls = 2
    /\ \E h \in DOMAIN enabledCgroups : enabledCgroups[h] = <<"cpuacct", "cpu">>
    /\ \E i \in CgroupMounts : log[i].data = <<"cpuacct", ",", "cpu">>
    /\ Cardinality(symlinks) = 2

-----------------------------------------------------------------------------
(* Further properties of the bulk carver *)

\* the allow-list of a controller directory, from the static mapping: the
\* knob files of its controllers that the mapping lists, and with them the
\* membership file
Listed(cs) == Members(cs) \cap {"memory", "cpu", "devices"}
KnobsOf(c) ==
    CASE c = "memory" -> {"memory.limit_in_bytes"}
      [] c = "cpu" -> {"cpu.cfs_quota_us"}
      [] c = "devices" -> {"devices.allow", "devices.deny"}
      [] OTHER -> {}
DirAllowList(cs) ==
    UNION {KnobsOf(c) : c \in Listed(cs)} \cup (IF Listed(cs) = {} THEN {} ELSE {"cgroup.procs"})

\* the files of a service directory of a mounted hierarchy
FilesIn(cs) ==
    (UNION {KnobsOf(c) : c \in Members(cs)} \cup {"cgroup.procs", "tasks", "notify_on_release"})
        \ missing

ServiceDir(cs, s) ==
    CgroupTmpfs \o <<Sep>> \o JoinComma(cs) \o <<Sep>> \o args.subcgroup
        \o <<Sep, "system.slice", Sep, s>>
BoundOk(path) == \E i \in LogIdx : log[i] = Op("bind", path, "ok")
AllFileNames == KnobNames \cup {"cgroup.procs", "tasks", "notify_on_release"}

BindsExactly(hs) ==
    /\ InRemountRO =>
         \A i \in LogIdx : log[i].op = "stat" => ~(i = Len(log) /\ pc = "done")
    /\ InRemountRO /\ Returned("ok") =>
         \A h \in hs : \A k \in 1..Len(args.serviceNames) :
            LET cs == enabledCgroups[h]
                dir == ServiceDir(cs, args.serviceNames[k])
            IN /\ dir \in dirs
               /\ \A f \in AllFileNames :
                    BoundOk(dir \o <<Sep, f>>) <=> f \in DirAllowList(cs) /\ f \in FilesIn(cs)
               /\ \A f \in AllFileNames :
                    BoundOk(dir \o <<Sep, f>>) => dir \o <<Sep, f>> \in MountPoints

\* C13 as stated: a successful RemountV1CgroupsRO has created the directory
\* of every listed service under every controller directory and has
\* bind-mounted a file of it iff the file is on the allow-list of the
\* controllers of that directory and exists; a missing file does not end the
\* call.
C13_Original == BindsExactly(DOMAIN enabledCgroups)

\* C13 for the controller directories with at most one controller of the
\* static mapping (the others get the files of the first such controller only)
C13_SingleListed ==
    BindsExactly({h \in DOMAIN enabledCgroups : Cardinality(Listed(enabledCgroups[h])) <= 1})

C13_Witness ==
    /\ InRemountRO /\ Returned("ok")
    /\ Len(args.serviceNames) = 2
    /\ \E i \in LogIdx : log[i].op = "stat"
    /\ \E i \in LogIdx : log[i].op = "bind" /\ log[i].path[Len(log[i].path)] = "memory.limit_in_bytes"

-----------------------------------------------------------------------------
(* Further properties of the single-app carver *)

EnterBind == "enter mount --bind"
EnterRemountRW == "enter mount -o remount,bind,rw"
HelperOps == {EnterBind, EnterRemountRW}
FileOf(path) == path[Len(path)]

\* C14: RemountCgroupKnobsRW mounts nothing itself; for each allow-listed
\* file that exists it runs through the enter command the bind mount of the
\* file and right after it the read-write remount of the same file; the first
\* failing command ends the call with that error, no command follows it, and
\* the binds made before stay mounted.
C14_HelperOrder ==
    InKnobsRW =>
        /\ \A i \in LogIdx : log[i].op \in {"mkdir", "stat"} \cup HelperOps
        /\ \A i \in LogIdx : log[i].op \in HelperOps =>
             /\ FileOf(log[i].path) \in AllowList \ missing
             /\ Failed(log[i]) => IsLast(i)
        /\ \A i \in LogIdx : log[i].op = EnterRemountRW =>
             i > 1 /\ log[i - 1] = Op(EnterBind, log[i].path, "ok")
        /\ \A i \in LogIdx : log[i] = Op(EnterBind, log[i].path, "ok") =>
             /\ i < Len(log) => log[i + 1].op = EnterRemountRW /\ log[i + 1].path = log[i].path
             /\ i = Len(log) => pc = "k_rw"
             /\ log[i].path \in MountPoints
        /\ \A i, j \in LogIdx :
             i < j /\ log[i].op \in HelperOps /\ log[i].op = log[j].op => log[i].path # log[j].path
        /\ Returned("ok") => \A i \in LogIdx : log[i].op \in HelperOps => ~Failed(log[i])

C14_Witness ==
    /\ InKnobsRW /\ Returned("err")
    /\ Len(log) >= 5
    /\ log[Len(log)].op = EnterRemountRW /\ Failed(log[Len(log)])
    /\ \E i \in LogIdx : log[i].op = EnterRemountRW /\ log[i].res = "ok" /\ Writable(log[i].path)
    /\ log[Len(log) - 1].path \in MountPoints

-----------------------------------------------------------------------------
(* Properties of the membership functions *)

\* GetOwnV1CgroupPath was called right after a JoinV1Subcgroup of the same
\* controller that succeeded
ResolvedAfterJoin ==
    /\ call.fn = "GetOwnV1CgroupPath"
    /\ lastJoin.err = "nil"
    /\ lastJoin.controller = call.controller

\* the controller argument names one controller of a mounted hierarchy
NamesOneController(controller) ==
    \E h \in 1..Len(hierarchies) : \E i \in 1..Len(hierarchies[h].controllers) :
        /\ controller = <<hierarchies[h].controllers[i]>>
        /\ hierarchies[h].controllers[i] # "name=systemd"

\* the kernel's name of the cgroup a subcgroup argument denotes
KernelName(subcgroup) ==
    CASE subcgroup = <<"machine">> -> <<Sep, "machine">>
      [] subcgroup = <<Sep, "machine", Sep>> -> <<Sep, "machine">>
      [] subcgroup = <<"machine", Sep, "..", Sep, "b">> -> <<Sep, "b">>
      [] OTHER -> subcgroup

-----------------------------------------------------------------------------
(* Properties of mountFsRO *)

\* the step is a read-only remount that succeeded
RemountedRO(p) ==
    /\ Len(log') = Len(log) + 1
    /\ log'[Len(log')].op = "remount ro" /\ log'[Len(log')].res = "ok"
    /\ log'[Len(log')].path = p

MountedRO(p) == p \in MountPoints /\ FlagAt(p) = "ro"

\* the kernel accepts the remount of a read-only mount a call is about to make
AcceptedWhenRO ==
    /\ InRemountRO /\ pc = "ctrl_ro" /\ MountedRO(CPath(controllers[ci]))
         => ENABLED (RemountCtrlRO /\ RemountedRO(CPath(controllers[ci])))
    /\ InRemountRO /\ pc = "sys_ro" /\ MountedRO(SysPath)
         => ENABLED (RemountSysRO /\ RemountedRO(SysPath))

\* a successful read-only remount of a mount that is read-only already
\* leaves the mount table as it is
SameAsOne ==
    \A p \in MountPoints :
        MountedRO(p) /\ RemountedRO(p) => mounts' = mounts /\ FlagAt(p)' = "ro"

\* C16: mountFsRO on a mount that is read-only already is accepted and
\* leaves it read-only with the mount table unchanged, so repeated
\* read-only remounts of a path give the mount state that one gives.
C16_RemountIdempotent == []AcceptedWhenRO /\ [][SameAsOne]_vars

C16_Witness ==
    /\ InRemountRO /\ Returned("ok")
    /\ \A i \in LogIdx : log[i].op = "remount ro" => log[i].before = "ro" /\ log[i].res = "ok"
    /\ Cardinality({i \in LogIdx : log[i].op = "remount ro"}) = 3
    /\ \E i \in LogIdx : log[i].op = "bind" /\ log[i].res = "ok"

-----------------------------------------------------------------------------
(* Properties of the v1 path resolution *)

\* the hierarchies whose controller list has the name as one of its elements
ListedIn(controller) ==
    {h \in 1..Len(hierarchies) :
        \E i \in 1..Len(hierarchies[h].controllers) : controller = <<hierarchies[h].controllers[i]>>}

\* C17: the resolver returns the path field (everything after the second
\* ":", further ":" included) of the line of the membership file whose
\* controller list has the controller as one of its elements, when there is
\* such a line, and fails with "not found" exactly when there is none; "cpu"
\* is not found in a file that lists only "cpuacct".
C17_ResolveV1Path ==
    call.fn = "GetOwnV1CgroupPath" =>
        /\ call.file = MembershipFile
        /\ IF ListedIn(call.controller) = {}
           THEN call.err = "controller not found" /\ call.path = <<>>
           ELSE /\ call.err = "nil"
                /\ \A h \in ListedIn(call.controller) : call.path = membership[h]
        /\ call.controller = <<"cpu">>
             /\ (\A h \in 1..Len(hierarchies) : hierarchies[h].controllers # <<"cpu">>
                                                 /\ hierarchies[h].controllers # <<"cpu", "cpuacct">>)
             => call.err = "controller not found"

C17_Witness ==
    /\ call.fn = "GetOwnV1CgroupPath"
    /\ call.controller = <<"memory">>
    /\ call.err = "nil"
    /\ call.path = <<Sep, "machine", Sep, "a", Colon, "b">>
    /\ \E i \in 1..Len(call.file) : call.file[i][3] = "cpuacct" /\ call.file[i][4] = Colon

-----------------------------------------------------------------------------
(* Properties of the controller table *)

\* a line of the table as the kernel writes it: a name and three numbers
WellFormed(line) ==
    /\ Len(line) = 4
    /\ line[1] # <<>>
    /\ \A i \in 2..4 : IsNumber(line[i])

\* a line that starts with a name and three numbers, the third of them
\* followed by anything
FourFields(line) ==
    /\ Len(line) >= 4
    /\ IsNumber(line[2]) /\ IsNumber(line[3])
    /\ IsDigit(line[4][1])

\* the digits the enabled field starts with
FlagDigits(line) ==
    SubSeq(line[4], 1,
           CHOOSE k \in 1..Len(line[4]) :
               /\ \A j \in 1..k : IsDigit(line[4][j])
               /\ k < Len(line[4]) => ~IsDigit(line[4][k + 1]))

\* the table lines after the first that count, the hierarchy ids they name
\* and the controllers of one id in table order
Counted(lines, Counts(_)) ==
    SelectSeq(IF lines = <<>> THEN <<>> ELSE Tail(lines),
              LAMBDA l : Counts(l) /\ Dec(FlagDigits(l)) = 1)
IdsOf(ls) == {Dec(ls[i][2]) : i \in 1..Len(ls)}
ControllersOf(ls, h) ==
    LET sel == SelectSeq(ls, LAMBDA l : Dec(l[2]) = h)
    IN [i \in 1..Len(sel) |-> sel[i][1]]

MapOf(cgroups, ls) ==
    /\ DOMAIN cgroups = IdsOf(ls)
    /\ \A h \in IdsOf(ls) : cgroups[h] = ControllersOf(ls, h)

ParsedTable == call.fn = "parseV1Cgroups" /\ call.f.err = "nil"

\* C18 as stated: the map holds exactly the controllers of the well-formed
\* enabled lines after the first, malformed lines contribute nothing
C18_Original ==
    ParsedTable =>
        /\ call.err = "nil"
        /\ MapOf(call.cgroups, Counted(call.f.lines, WellFormed))

\* C18: parseV1Cgroups skips the first line and builds a map that holds
\* exactly the controllers of the remaining lines that start with a name and
\* three numbers of which the third is 1, whatever follows it on the line,
\* each under its hierarchy id in table order; a line on which the scan
\* stops earlier contributes nothing, no line causes an error and no
\* hierarchy id of the map has an empty list.
C18_ParseTable ==
    ParsedTable =>
        /\ call.err = "nil"
        /\ MapOf(call.cgroups, Counted(call.f.lines, FourFields))
        /\ \A h \in DOMAIN call.cgroups : call.cgroups[h] # <<>>

C18_Witness ==
    /\ ParsedTable
    /\ Len(call.f.lines) = 4 /\ call.f.lines[1] = TableHeader
    /\ 3 \in DOMAIN call.cgroups /\ call.cgroups[3] = <<<<"cpuacct">>, <<"cpu">>>>
    /\ \E i \in 1..Len(call.f.lines) : ~FourFields(call.f.lines[i]) /\ call.f.lines[i] # TableHeader

-----------------------------------------------------------------------------
(* Properties of journal2cri *)

\* the identifier read as <app name>-<instance number>: the number is what
\* follows the last "-" and the app name what precedes it
LastHyphen(s) == CHOOSE k \in 1..Len(s) : s[k] = Hyphen /\ \A j \in (k + 1)..Len(s) : s[j] # Hyphen
NameOf(s) == SubSeq(s, 1, LastHyphen(s) - 1)
InstanceOf(s) == SubSeq(s, LastHyphen(s) + 1, Len(s))
HasAppForm(s) ==
    /\ \E k \in 1..Len(s) : s[k] = Hyphen
    /\ NameOf(s) # <<>>
    /\ IsNumber(InstanceOf(s))

AppEntry ==
    /\ call.fn = "ProcessEntry"
    /\ "SYSLOG_IDENTIFIER" \in DOMAIN call.entry.Fields
    /\ HasAppForm(call.entry.Fields["SYSLOG_IDENTIFIER"])
    /\ "_TRANSPORT" \in DOMAIN call.entry.Fields
    /\ call.entry.Fields["_TRANSPORT"] \in {<<"stdout">>, <<"stderr">>}

Converted(name, instance) ==
    /\ ~call.out.nil
    /\ call.out.AppName = name
    /\ call.out.AppAttempt = Dec(instance)
    /\ call.out.Message = Field(call.entry, "MESSAGE")
    /\ call.out.StreamType = call.entry.Fields["_TRANSPORT"]
    /\ call.out.Timestamp = call.entry.RealtimeTimestamp \o <<"0", "0", "0">>

\* C19: for every journal entry whose SYSLOG_IDENTIFIER is <app name>-<decimal
\* instance number> and whose _TRANSPORT is stdout or stderr, ProcessEntry
\* returns a CRI entry with that app name, that instance number, the MESSAGE
\* field, the transport and the realtime timestamp as microseconds since the
\* epoch.
C19_ProcessEntry ==
    AppEntry => Converted(NameOf(call.entry.Fields["SYSLOG_IDENTIFIER"]),
                          InstanceOf(call.entry.Fields["SYSLOG_IDENTIFIER"]))

\* the entries of the apps whose name has no "-" are converted
C19_PlainNames ==
    AppEntry /\ (\A i \in 1..Len(NameOf(call.entry.Fields["SYSLOG_IDENTIFIER"])) :
                     NameOf(call.entry.Fields["SYSLOG_IDENTIFIER"])[i] # Hyphen)
        => Converted(NameOf(call.entry.Fields["SYSLOG_IDENTIFIER"]),
                     InstanceOf(call.entry.Fields["SYSLOG_IDENTIFIER"]))

-----------------------------------------------------------------------------
(* Properties of execShim.Exec *)

\* C20: each of the four goroutines of Exec sends at most one value on the
\* error channel, the channel never holds more than its capacity of 4 and a
\* goroutine that is at a send finds room in the channel (the send does not
\* block), in every interleaving, after Exec has returned too.
C20_SendsNeverBlock ==
    /\ \A g \in Goroutines : goroutines[g].sent <= 1
    /\ Len(errCh) <= ErrChCap
    /\ \A g \in Goroutines : At(g, "send") => Len(errCh) < ErrChCap /\ ENABLED Send(g)

\* all four goroutines have failed and sent: Exec has returned with the first
\* error and the other three stay in the channel
C20_Witness ==
    /\ exec.pc = "returned" /\ exec.ret = <<"run", "start">>
    /\ \A g \in Goroutines : goroutines[g].sent = 1 /\ At(g, "end")
    /\ Len(errCh) = 3
    /\ errCh[3] = <<"streamStdin", "copy">>

-----------------------------------------------------------------------------
(* Further properties of execShim.Exec and of ExecSync *)

ExecReturned(r) == exec.pc = "returned" /\ exec.ret = r
ExitedOk == cmd.proc = "exited" /\ cmd.status = 0

\* C21: in every interleaving of the goroutines of Exec the stdin, stdout
\* and stderr pipes are obtained before the command is started: once the
\* process is started no goroutine has its pipe call still to make and no
\* pipe was made that the process does not have, and Exec does not return
\* the error of a pipe call made too late for a command that started and
\* exited successfully.
C21_PipesBeforeStart ==
    /\ cmd.proc # "none" =>
         \A g \in Streams : goroutines[g].pc # "start" /\ goroutines[g].pipe # "loose"
    /\ \A g \in Streams :
         ExecReturned(<<g, "pipe", "after process started">>) => ~ExitedOk

\* C22: when Exec has returned nil the command has exited with status 0 and
\* every byte it wrote to its standard output and standard error has been
\* copied to out and errOut; when the command could not be started or exited
\* with another status Exec does not return nil.
C22_NilMeansAllCopied ==
    /\ ExecReturned(<<"nil">>) =>
         /\ ExitedOk
         /\ \A s \in OutStreams : goroutines[s].copied = cmd.wrote[s]
    /\ goroutines["run"].err = <<"run", "start">> \/ (cmd.proc = "exited" /\ cmd.status # 0) =>
         ~ExecReturned(<<"nil">>)

\* the part of it that holds: nil is returned only for a command that exited
\* with status 0, never for one that did not start or failed
C22_NilMeansExitedOk ==
    /\ ExecReturned(<<"nil">>) => ExitedOk /\ goroutines["run"].pc = "end"
    /\ goroutines["run"].err = <<"run", "start">> \/ (cmd.proc = "exited" /\ cmd.status # 0) =>
         ~ExecReturned(<<"nil">>)

\* C23: ExecSync comes to an end: the Write and the Bytes of nopWriteCloser
\* return after a bounded number of calls, no stack runs out, and when Exec
\* has returned nil the response of ExecSync carries the bytes the command
\* wrote.
C23_ExecSyncAnswers ==
    /\ ~Crashed
    /\ \A g \in OutStreams : goroutines[g].depth <= 1
    /\ exec.depth <= 1
    /\ exec.sync = "returned" /\ exec.ret = <<"nil">> => exec.response = Response(cmd.wrote)

\* the error of Exec is what ExecSync returns
C23_ErrorPassedOn ==
    exec.sync = "returned" => exec.ret # <<"nil">> /\ exec.response = NoResponse(exec.ret)

-----------------------------------------------------------------------------
(* Further properties of MaybeAddIsolator *)

\* C28: for every isolator kind and present quantity MaybeAddIsolator calls a
\* translator only if isolatorFuncs defines one for the kind: whenever
\* IsIsolatorSupported reports the kind as supported the call returns
\* normally, with options or an error, and no missing translator is called.
C28_NoMissingTranslator ==
    isoIn.isolator # "none" /\ ~isoIn.limit.nil => ~isoOut.panicked

-----------------------------------------------------------------------------
(* Properties of getV1ControllerRWFiles *)

\* C29: for a controller directory name that joins several controllers the
\* files getV1ControllerRWFiles keeps read-write are the knob files of every
\* member controller of the static mapping, plus cgroup.procs.
C29_JointRWFiles ==
    InRemountRO \/ InKnobsRW =>
        \A i \in 1..Len(controllers) :
            Len(SplitComma(controllers[i])) > 1 /\ Listed(SplitComma(controllers[i])) # {} =>
                Members(getV1ControllerRWFiles(controllers[i])) = DirAllowList(SplitComma(controllers[i]))

-----------------------------------------------------------------------------
(* Properties of the cpuset pre-step *)

\* the controller directories of the call whose hierarchy has cpuset
WithCpuset == {i \in 1..Len(controllers) : "cpuset" \in Members(SplitComma(controllers[i]))}
\* the loop of RemountV1CgroupsRO is past the pre-step of controller i: it
\* has made a directory, bound a file or remounted for that controller
PastPreStep(i) ==
    \E n \in LogIdx :
        /\ log[n].op # "write"
        /\ log[n].path = CPath(controllers[i]) \/ IsUnder(CPath(controllers[i]), log[n].path)
SliceOf(i) == JoinPath(CPath(controllers[i]), <<"system.slice">>)
WritesTo(i, k) == {n \in LogIdx : log[n].op = "write" /\ log[n].path = JoinPath(SliceOf(i), <<k>>)}

\* what the pre-step leaves behind for controller i: the slice directory,
\* and for each knob no write or two writes in a row of the parent's value
PreStepDone(i) ==
    /\ SliceOf(i) \in dirs
    /\ \A k \in DOMAIN cpuset :
         /\ WritesTo(i, k) = {} \/ \E n \in LogIdx : WritesTo(i, k) = {n, n + 1}
         /\ (\E n \in WritesTo(i, k) : log[n].res = "ok") => cpuset[k].child = cpuset[k].parent
         /\ WritesTo(i, k) = {} /\ Readable(cpuset[k].child) /\ Readable(cpuset[k].parent)
              => TrimSpace(cpuset[k].child) # <<>>

CpusetStep(is) ==
    InRemountRO =>
        /\ \A i \in is : PastPreStep(i) => PreStepDone(i)
        /\ Returned("err") => log # <<>> /\ log[Len(log)].op # "write"

\* C25: the pre-step of the bulk carver runs for the hierarchy that contains
\* the cpuset controller: a knob of the slice that is readable and empty gets
\* the parent's value written twice in a row, a configured knob is left
\* alone, and no read or write failure fails RemountV1CgroupsRO.
C25_CpusetPreStep == CpusetStep(WithCpuset)

\* the same for the hierarchy of cpuset alone
C25_CpusetAlone == CpusetStep({i \in WithCpuset : controllers[i] = <<"cpuset">>})

\* a knob changes only from empty to the parent's value
C25_ConfiguredKept ==
    [][\A k \in DOMAIN cpuset :
          cpuset'[k] # cpuset[k] =>
              /\ Readable(cpuset[k].child) /\ TrimSpace(cpuset[k].child) = <<>>
              /\ cpuset'[k] = [cpuset[k] EXCEPT !.child = cpuset[k].parent]]_vars

-----------------------------------------------------------------------------
(* The two carvers compared *)

\* the knob files of a service that the policy keeps read-write: for every
\* controller directory the files of getV1ControllerRWFiles that exist
Policy(s) ==
    UNION {{ServiceDir(enabledCgroups[h], s) \o <<Sep, f>> :
               f \in Members(getV1ControllerRWFiles(JoinComma(enabledCgroups[h]))) \ missing} :
           h \in DOMAIN enabledCgroups}

\* the files of service s the bulk carver has bind-mounted, and the files the
\* single-app carver has had mounted
BulkBinds(s) ==
    {log[i].path : i \in {j \in LogIdx : /\ log[j].op = "bind" /\ log[j].res = "ok"
                                         /\ log[j].path[Len(log[j].path) - 2] = s}}
SingleBinds == {log[i].path : i \in {j \in LogIdx : log[j].op = EnterBind /\ log[j].res = "ok"}}

\* C24: the two carvers share one policy: for the same hierarchy map,
\* subcgroup, service and existing files, the knob files a successful
\* RemountCgroupKnobsRW opens for the service and the knob files a successful
\* RemountV1CgroupsRO bind-mounts for it are the same set, the existing files
\* of getV1ControllerRWFiles of every controller directory.
C24_SamePolicy ==
    /\ InRemountRO /\ Returned("ok") =>
         \A k \in 1..Len(args.serviceNames) :
            BulkBinds(args.serviceNames[k]) = Policy(args.serviceNames[k])
    /\ InKnobsRW /\ Returned("ok") => SingleBinds = Policy(args.serviceNames[1])

\* the single-app carver has finished for a service after the bulk carver
\* had carved the same files for it; one knob is missing
C24_Witness ==
    /\ InKnobsRW /\ Returned("ok")
    /\ \E i \in LogIdx : log[i].op = "stat"
    /\ Cardinality(SingleBinds) >= 2
    /\ \A p \in SingleBinds : Writable(p)
    /\ ncalls = 3

-----------------------------------------------------------------------------
(* Properties of addInternalLoggingApp *)

IsAppAdd(command) == command.args[1] = <<"app">> /\ command.args[2] = <<"add">>
IsAppStart(command) == command.args[1] = <<"app">> /\ command.args[2] = <<"start">>

\* C26: addInternalLoggingApp issues 'app add' and then 'app start' and no
\* other command; with an empty CRI log directory and when the image hash
\* lookup fails it issues none; when 'app add' fails 'app start' is not
\* issued; it returns nil only after both commands succeeded.
C26_AddThenStart ==
    call.fn = "addInternalLoggingApp" =>
        /\ Len(call.cmds) <= 2
        /\ Len(call.cmds) >= 1 => IsAppAdd(call.cmds[1])
        /\ Len(call.cmds) = 2 => IsAppStart(call.cmds[2]) /\ call.cmds[1].res = "ok"
        /\ call.criLogDir = <<>> => call.cmds = <<>> /\ call.ret # "nil"
        /\ call.ret = "getImageHash" => call.cmds = <<>>
        /\ call.ret = "nil" =>
             /\ call.pc = "done"
             /\ Len(call.cmds) = 2
             /\ \A i \in 1..2 : call.cmds[i].res = "ok"
        /\ call.pc = "done" /\ call.ret # "nil" =>
             call.cmds = <<>> \/ call.cmds[Len(call.cmds)].res = "err"

C26_Witness ==
    /\ InLogging("done")
    /\ call.ret = "app add"
    /\ Len(call.cmds) = 1 /\ IsAppAdd(call.cmds[1]) /\ call.cmds[1].res = "err"

\* the value of the argument of a command that starts with the given flag
FlagValue(command, flag) ==
    LET i == CHOOSE j \in 1..Len(command.args) : command.args[j] # <<>> /\ command.args[j][1] = flag
    IN Tail(command.args[i])
\* a text without its division into pieces
RECURSIVE Flat(_)
Flat(text) ==
    IF text = <<>> THEN <<>>
    ELSE IF text[1] = "journal2cri-rktletinternal"
         THEN <<"journal2cri-", "rktletinternal">> \o Flat(Tail(text))
         ELSE <<text[1]>> \o Flat(Tail(text))

\* C27: the app name given to 'app start' (--app=) is the name under which
\* the logging helper was added by 'app add' (--name=).
C27_StartsWhatWasAdded ==
    call.fn = "addInternalLoggingApp" /\ Len(call.cmds) = 2 =>
        Flat(FlagValue(call.cmds[2], "--app=")) = Flat(FlagValue(call.cmds[1], "--name="))

\* the same for the function whose loggingAppName is internalPrefix + "journal2cri"
C27_Prefixed ==
    call.fn = "addInternalLoggingApp" /\ Len(call.cmds) = 2 /\ call.version = "prefixed" =>
        Flat(FlagValue(call.cmds[2], "--app=")) = Flat(FlagValue(call.cmds[1], "--name="))

====
